---- MODULE Spec2Model ----
(***************************************************************************)
(* Backtesting simulation engine of exora-quant                            *)
(* (src/fully-automated-project/backtester.py, run_backtest_simulation),   *)
(* its zone detector find_supply_demand_zones and the metrics block, with  *)
(* the profit-factor lines of the sibling files main.py and                *)
(* backtester_spot.py.                                                     *)
(*                                                                         *)
(* Number representation.  Python floats are modelled as fixed-point       *)
(* integers: prices in price ticks, quantities in quantity ticks, money    *)
(* (equity, pnl, margin) in price tick x quantity tick, so that            *)
(* price difference * quantity is exact.  Additions and subtractions are   *)
(* exact; every float division and every multiplication by a decimal      *)
(* literal (0.999, 1.001, 0.33, risk_percentage / 100) rounds toward zero  *)
(* to the grid (FDiv).  Timestamps are in days: sub-candle k of the        *)
(* fetched array opens on day start_ts + k, and a main-interval candle     *)
(* opens every SubPerMain days.                                            *)
(***************************************************************************)
EXTENDS Integers, Sequences, FiniteSets, TLC

VARIABLES
    pc,               \* position in run_backtest_simulation
    cfg,              \* the call's parameters (mode, leverage, ...)
    fetched,          \* lengths of the two fetched candle arrays
    main_tail,        \* main candles at indices >= WarmUp read so far
    idx,              \* loop index into sub_candles
    sub_candle,       \* the loop variable sub_candle
    zones,            \* the local zones of the current signal step
    equity,
    total_dca_added,
    last_dca_time,
    open_position,
    trades,
    equity_curve,
    result,           \* what the call returns or raises
    hist,             \* history: per-position bookkeeping for the properties
    mlog,             \* metrics specification: the trade log given
    mout,             \* metrics specification: the three files' results
    garg,             \* guard specification: the arguments of an entry
    gout,             \* guard specification: liquidation price and stops
    dcurve,           \* drawdown specification: the equity curve given
    dout,             \* drawdown specification: the max_drawdown computed
    suspended,        \* the locals of a second call that is not running
    zcandles,         \* detector specification: the candles given
    zout,             \* detector specification: the zones returned
    lock_owner,       \* main.py: the thread holding each module lock
    threads,          \* main.py: each thread's function and lock operations
    ACTIVE_POSITIONS, \* main.py: the dict of open positions (references)
    objects,          \* main.py: the position dicts the references denote
    closers           \* main.py: the locals of the threads that close

vars == <<pc, cfg, fetched, main_tail, idx, sub_candle, zones, equity,
          total_dca_added, last_dca_time, open_position, trades,
          equity_curve, result, hist, mlog, mout,
          garg, gout, dcurve, dout, suspended, zcandles, zout,
          lock_owner, threads, ACTIVE_POSITIONS, objects, closers>>

\* the state of the live program main.py
live_vars == <<lock_owner, threads, ACTIVE_POSITIONS, objects, closers>>

-----------------------------------------------------------------------------
(* Bounds of the model and constants of the program *)

\* sub-candles the data source returned per main-interval candle
SubPerMain == 2
\* sub-candles replayed after the warm-up of WarmUp main candles
MaxTail == 4
\* longest trade log given to the metrics block in MetricsSpec
MaxLog == 3

\* backtester.py:664 and :741 (len(all_candles_raw) < 50, current_main_idx >= 50)
WarmUp == 50
\* backtester.py:380 (len(candles) < 20)
MinCandles == 20
\* backtester.py:374 (lookback=500) and :742 (current_main_idx - 500)
Lookback == 500
\* backtester.py:688, in days
WEEK_MS == 7

\* Python's None, for positions, zones and results
None == [none |-> TRUE]

\* float('inf') of backtester.py:398
Inf == 1000000000

-----------------------------------------------------------------------------
(* Arithmetic helpers *)

Abs(x) == IF x < 0 THEN -x ELSE x

Max(a, b) == IF a >= b THEN a ELSE b

Min(a, b) == IF a <= b THEN a ELSE b

\* a float division a / b, rounded toward zero to the grid
FDiv(a, b) == IF a >= 0 THEN a \div b ELSE -((-a) \div b)

\* s[k] of a Python list (0-based)
At(s, k) == s[k + 1]

\* s[-n:] of a Python list
LastN(s, n) == IF Len(s) <= n THEN s ELSE SubSeq(s, Len(s) - n + 1, Len(s))

\* s[a : b] of a Python list, 0 <= a <= b
Slice(s, a, b) == SubSeq(s, a + 1, Min(b, Len(s)))

\* str.upper() on a direction
Upper(d) == IF d = "long" THEN "LONG" ELSE IF d = "short" THEN "SHORT" ELSE d

Candle(t, o, h, l, c) == [t |-> t, o |-> o, h |-> h, l |-> l, c |-> c]

-----------------------------------------------------------------------------
(* find_supply_demand_zones, backtester.py:374-432 *)

Body(c) == Abs(c.o - c.c)

\* body_sizes: the sum and the number of the non-zero bodies of data
RECURSIVE BodySum(_, _)
BodySum(data, k) ==
    IF k = 0 THEN 0 ELSE BodySum(data, k - 1) + Body(data[k])

RECURSIVE BodyCount(_, _)
BodyCount(data, k) ==
    IF k = 0 THEN 0
    ELSE BodyCount(data, k - 1) + (IF Body(data[k]) > 0 THEN 1 ELSE 0)

\* body > avg_body_size * 1.5, with avg_body_size = sum / n
IsExplosive(body, sum, n) == body * n * 10 > sum * 15

\* body < avg_body_size * 0.8
IsBasing(body, sum, n) == body * n * 10 < sum * 8

IsRally(c) == c.c > c.o

IsDrop(c) == c.o > c.c

\* the inner loop: for j in range(i - 1, max(0, i - 4), -1), with its break
RECURSIVE BaseLoop(_, _, _, _, _, _, _)
BaseLoop(data, j, stop, sum, n, before, acc) ==
    IF j <= stop THEN acc
    ELSE LET is_basing_candle == IsBasing(Body(At(data, j)), sum, n)
             is_before == IF before = "rally" THEN IsRally(At(data, j - 1))
                          ELSE IsDrop(At(data, j - 1))
         IN IF is_basing_candle /\ is_before
            THEN BaseLoop(data, j - 1, stop, sum, n, before,
                          [high  |-> Max(acc.high, At(data, j).h),
                           low   |-> Min(acc.low, At(data, j).l),
                           count |-> acc.count + 1])
            ELSE acc

BaseOf(data, i, sum, n, before) ==
    BaseLoop(data, i - 1, Max(0, i - 4), sum, n, before,
             [high |-> -1, low |-> Inf, count |-> 0])

\* the supply check without 'base_low > current_price'
SupplyAt_Unpriced(data, i, sum, n, current_price) ==
    LET is_drop_candle == IsDrop(At(data, i))
                          /\ IsExplosive(At(data, i).o - At(data, i).c, sum, n)
        base == BaseOf(data, i, sum, n, "rally")
    IN IF is_drop_candle /\ base.count > 0
       THEN [high |-> base.high, low |-> base.low]
       ELSE None

\* the supply zone built at index i (Rally-Base-Drop), or None
SupplyAt(data, i, sum, n, current_price) ==
    LET is_drop_candle == IsDrop(At(data, i))
                          /\ IsExplosive(At(data, i).o - At(data, i).c, sum, n)
        base == BaseOf(data, i, sum, n, "rally")
    IN IF is_drop_candle /\ base.count > 0 /\ base.low > current_price
       THEN [high |-> base.high, low |-> base.low]
       ELSE None

\* the demand check without 'base_high < current_price'
DemandAt_Unpriced(data, i, sum, n, current_price) ==
    LET is_rally_candle == IsRally(At(data, i))
                           /\ IsExplosive(At(data, i).c - At(data, i).o, sum, n)
        base == BaseOf(data, i, sum, n, "drop")
    IN IF is_rally_candle /\ base.count > 0
       THEN [high |-> base.high, low |-> base.low]
       ELSE None

\* the demand zone built at index i (Drop-Base-Rally), or None
DemandAt(data, i, sum, n, current_price) ==
    LET is_rally_candle == IsRally(At(data, i))
                           /\ IsExplosive(At(data, i).c - At(data, i).o, sum, n)
        base == BaseOf(data, i, sum, n, "drop")
    IN IF is_rally_candle /\ base.count > 0 /\ base.high < current_price
       THEN [high |-> base.high, low |-> base.low]
       ELSE None

\* the rest of the outer loop once demand_zone is set: only 'if not
\* supply_zone' is taken
RECURSIVE ScanSupply(_, _, _, _, _, _)
ScanSupply(data, i, sum, n, current_price, demand_zone) ==
    IF i <= 2 THEN [supply |-> None, demand |-> demand_zone]
    ELSE LET s == SupplyAt(data, i, sum, n, current_price)
         IN IF s # None
            THEN [supply |-> s, demand |-> demand_zone]
            ELSE ScanSupply(data, i - 1, sum, n, current_price, demand_zone)

\* the rest of the outer loop once supply_zone is set: only 'if not
\* demand_zone' is taken
RECURSIVE ScanDemand(_, _, _, _, _, _)
ScanDemand(data, i, sum, n, current_price, supply_zone) ==
    IF i <= 2 THEN [supply |-> supply_zone, demand |-> None]
    ELSE LET d == DemandAt(data, i, sum, n, current_price)
         IN IF d # None
            THEN [supply |-> supply_zone, demand |-> d]
            ELSE ScanDemand(data, i - 1, sum, n, current_price, supply_zone)

\* the outer loop: for i in range(len(data) - 2, 2, -1), with its break,
\* while neither zone is set
RECURSIVE ScanZones(_, _, _, _, _)
ScanZones(data, i, sum, n, current_price) ==
    IF i <= 2 THEN [supply |-> None, demand |-> None]
    ELSE LET s == SupplyAt(data, i, sum, n, current_price)
             d == DemandAt(data, i, sum, n, current_price)
         IN IF s # None /\ d # None
            THEN [supply |-> s, demand |-> d]
            ELSE IF s # None
            THEN ScanDemand(data, i - 1, sum, n, current_price, s)
            ELSE IF d # None
            THEN ScanSupply(data, i - 1, sum, n, current_price, d)
            ELSE ScanZones(data, i - 1, sum, n, current_price)

\* the detector with its scan started at the third-to-last candle
DetectZones_FromThirdLast(data) ==
    CHOOSE z \in { IF n = 0 THEN [supply |-> None, demand |-> None]
                   ELSE ScanZones(data, Len(data) - 3, sum, n,
                                  At(data, Len(data) - 1).c) :
                   n \in {BodyCount(data, Len(data))},
                   sum \in {BodySum(data, Len(data))} } : TRUE

\* backtester.py:377-432 on data = candles[-lookback:]; the locals n and sum
\* of body_sizes are computed once
DetectZones(data) ==
    CHOOSE z \in { IF n = 0 THEN [supply |-> None, demand |-> None]
                   ELSE ScanZones(data, Len(data) - 2, sum, n,
                                  At(data, Len(data) - 1).c) :
                   n \in {BodyCount(data, Len(data))},
                   sum \in {BodySum(data, Len(data))} } : TRUE

\* the detector without its test of len(candles)
find_supply_demand_zones_AnyLength(candles) ==
    CHOOSE z \in {DetectZones(d) : d \in {LastN(candles, Lookback)}} : TRUE

find_supply_demand_zones(candles) ==
    IF Len(candles) < MinCandles THEN [supply |-> None, demand |-> None]
    ELSE CHOOSE z \in {DetectZones(d) : d \in {LastN(candles, Lookback)}} : TRUE

-----------------------------------------------------------------------------
(* calculate_liquidation_price, backtester.py:326-338.  The rate           *)
(* 1 / leverage - 0.005 is (200 - leverage) / (200 * leverage).            *)

\* the liquidation price with the two directions exchanged
calculate_liquidation_price_Swapped(entry_price, leverage, direction) ==
    IF leverage <= 1 THEN None
    ELSE IF direction = "long"
         THEN [price |-> entry_price
                         + FDiv(entry_price * (200 - leverage), 200 * leverage)]
    ELSE IF direction = "short"
         THEN [price |-> entry_price
                         - FDiv(entry_price * (200 - leverage), 200 * leverage)]
    ELSE None

calculate_liquidation_price(entry_price, leverage, direction) ==
    IF leverage <= 1 THEN None
    ELSE IF direction = "long"
         THEN [price |-> entry_price
                         - FDiv(entry_price * (200 - leverage), 200 * leverage)]
    ELSE IF direction = "short"
         THEN [price |-> entry_price
                         + FDiv(entry_price * (200 - leverage), 200 * leverage)]
    ELSE None

\* the clamp without the comparison of the stop with the liquidation price
LiquidationClamp_Always(sl, liquidation_price, direction) ==
    IF liquidation_price # None
    THEN IF direction = "long"
         THEN FDiv(liquidation_price.price * 1001, 1000)
         ELSE IF direction = "short"
         THEN FDiv(liquidation_price.price * 999, 1000)
         ELSE sl
    ELSE sl

\* main.py:572-574, backtester.py:593-595: the Liquidation Guard on a stop
LiquidationClamp(sl, liquidation_price, direction) ==
    IF liquidation_price # None
    THEN IF direction = "long" /\ sl <= liquidation_price.price
         THEN FDiv(liquidation_price.price * 1001, 1000)
         ELSE IF direction = "short" /\ sl >= liquidation_price.price
         THEN FDiv(liquidation_price.price * 999, 1000)
         ELSE sl
    ELSE sl

-----------------------------------------------------------------------------
(* Inputs: the parameters of a call and the candles of the data source *)

\* handle_backtest's arguments (backtester.py:951-959); money in money ticks
Configs ==
    { [mode |-> "futures", leverage |-> 10, starting_equity |-> 100000000,
       risk_percentage |-> 5, dca_frequency |-> "none", dca_amount |-> 0,
       start_ts |-> 0],
      [mode |-> "spot", leverage |-> 1, starting_equity |-> 100000000,
       risk_percentage |-> 5, dca_frequency |-> "weekly",
       dca_amount |-> 1000000, start_ts |-> 0],
      [mode |-> "futures", leverage |-> 1, starting_equity |-> 100000000,
       risk_percentage |-> 1, dca_frequency |-> "monthly",
       dca_amount |-> 1000000, start_ts |-> 20],
      [mode |-> "futures", leverage |-> 20, starting_equity |-> 100000000,
       risk_percentage |-> 2, dca_frequency |-> "weekly", dca_amount |-> 0,
       start_ts |-> 0] }

\* the main-interval candles needed to cover the replayed sub-candles
FullMain == WarmUp + ((MaxTail + SubPerMain - 1) \div SubPerMain)

FullSub == WarmUp * SubPerMain + MaxTail

\* len(all_candles_raw) and len(all_sub_candles_raw) after the two fetch loops
Fetches ==
    { [n_main |-> FullMain, n_sub |-> FullSub],
      [n_main |-> WarmUp, n_sub |-> FullSub],
      [n_main |-> WarmUp - 1, n_sub |-> FullSub],
      [n_main |-> FullMain, n_sub |-> 0] }

\* open, high, low, close of the sub-interval candles the source may return
SubShapes ==
    { <<11000, 11000, 11000, 11000>>,
      <<13000, 13000, 13000, 13000>>,
      <<12500, 15000, 9000, 12500>>,
      <<13000, 14000, 13000, 14000>>,
      <<11000, 11000, 10000, 10000>>,
      <<12500, 15000, 12500, 15000>>,
      <<12500, 12500, 9000, 9000>> }

\* open, high, low, close of the main-interval candles at indices >= WarmUp
MainShapes ==
    { <<12000, 12100, 12000, 12100>>,
      <<12000, 12000, 9000, 9000>>,
      <<12000, 15000, 12000, 15000>> }

\* all_candles_raw[k] for k < WarmUp: alternating small candles around 12000,
\* a rally-base-drop with base 13000..14000 at 40..42 and a drop-base-rally
\* with base 10000..11000 at 45..47
PrefixCandle(k) ==
    LET t == k * SubPerMain
    IN IF k = 41 THEN Candle(t, 13500, 14000, 13000, 13500)
       ELSE IF k = 42 THEN Candle(t, 13500, 13500, 12000, 12000)
       ELSE IF k = 46 THEN Candle(t, 10500, 11000, 10000, 10500)
       ELSE IF k = 47 THEN Candle(t, 10500, 12000, 10500, 12000)
       ELSE IF k % 2 = 0 THEN Candle(t, 12000, 12100, 12000, 12100)
       ELSE Candle(t, 12100, 12100, 12000, 12000)

\* all_candles_raw up to the main candles read so far
AllCandles(tail) == [k \in 1..WarmUp |-> PrefixCandle(k - 1)] \o tail

\* calendar month of a day number (datetime.fromtimestamp(ts / 1000).month)
MonthOf(ts) ==
    LET d == ts % 365
    IN IF d < 31 THEN 1 ELSE IF d < 59 THEN 2 ELSE IF d < 90 THEN 3
       ELSE IF d < 120 THEN 4 ELSE IF d < 151 THEN 5 ELSE IF d < 181 THEN 6
       ELSE IF d < 212 THEN 7 ELSE IF d < 243 THEN 8 ELSE IF d < 273 THEN 9
       ELSE IF d < 304 THEN 10 ELSE IF d < 334 THEN 11 ELSE 12

-----------------------------------------------------------------------------
(* The replay loop of run_backtest_simulation, backtester.py:694-795 *)

\* pnl of closing qty of a position at price
Pnl(pos, price, qty) ==
    IF pos.direction = "long" THEN (price - pos.entry_price) * qty
    ELSE (pos.entry_price - price) * qty

Trade(ts, pos, pnl, reason) ==
    [exit_time |-> ts, direction |-> Upper(pos.direction), pnl |-> pnl,
     return_pct |-> FDiv(pnl * 100, pos.initial_margin),
     exit_reason |-> reason]

\* the deposit test with a week that must be exceeded
DcaDue_Strict(c, current_ts, last) ==
    IF c.dca_frequency # "none" /\ c.dca_amount > 0
    THEN IF c.dca_frequency = "weekly" /\ current_ts - last > WEEK_MS
         THEN TRUE
         ELSE c.dca_frequency = "monthly" /\ MonthOf(current_ts) # MonthOf(last)
    ELSE FALSE

\* backtester.py:697-701: perform_dca, whether a deposit is due at current_ts
DcaDue(c, current_ts, last) ==
    IF c.dca_frequency # "none" /\ c.dca_amount > 0
    THEN IF c.dca_frequency = "weekly" /\ current_ts - last >= WEEK_MS
         THEN TRUE
         ELSE c.dca_frequency = "monthly" /\ MonthOf(current_ts) # MonthOf(last)
    ELSE FALSE

\* backtester.py:710-711: the stop-loss test
SlHit(pos, candle) ==
    \/ pos.direction = "long" /\ candle.l <= pos.sl
    \/ pos.direction = "short" /\ candle.h >= pos.sl

\* the stop-loss exit without "open_position = None"
StopLoss_KeepOpen(st, candle) ==
    IF st.pos # None /\ SlHit(st.pos, candle)
    THEN LET pnl == Pnl(st.pos, st.pos.sl, st.pos.quantity)
         IN [pos |-> st.pos, equity |-> st.equity + pnl,
             trades |-> Append(st.trades, Trade(candle.t, st.pos, pnl, "SL"))]
    ELSE st

\* the stop-loss exit without "equity += pnl"
StopLoss_NoCredit(st, candle) ==
    IF st.pos # None /\ SlHit(st.pos, candle)
    THEN LET pnl == Pnl(st.pos, st.pos.sl, st.pos.quantity)
         IN [pos |-> None, equity |-> st.equity,
             trades |-> Append(st.trades, Trade(candle.t, st.pos, pnl, "SL"))]
    ELSE st

\* backtester.py:712-715: the stop-loss exit, on st = [pos, equity, trades]
StopLoss(st, candle) ==
    IF st.pos # None /\ SlHit(st.pos, candle)
    THEN LET pnl == Pnl(st.pos, st.pos.sl, st.pos.quantity)
         IN [pos |-> None, equity |-> st.equity + pnl,
             trades |-> Append(st.trades, Trade(candle.t, st.pos, pnl, "SL"))]
    ELSE st

\* the take-profit prices with the first and the third level exchanged
TpPrice_Swapped(pos, i) ==
    IF i = 1 THEN pos.tp3 ELSE IF i = 2 THEN pos.tp2 ELSE pos.tp1

TpPrice(pos, i) == IF i = 1 THEN pos.tp1 ELSE IF i = 2 THEN pos.tp2 ELSE pos.tp3

\* half of the open quantity closed at every take-profit
TpQty_Half(pos, i) == FDiv(pos.quantity, 2)

TpQty(pos, i) ==
    IF i = 1 THEN pos.tp1_qty ELSE IF i = 2 THEN pos.tp2_qty ELSE pos.tp3_qty

TpFlag(pos, i) ==
    IF i = 1 THEN pos.tp1_hit ELSE IF i = 2 THEN pos.tp2_hit ELSE pos.tp3_hit

SetTpFlag(pos, i) ==
    IF i = 1 THEN [pos EXCEPT !.tp1_hit = TRUE]
    ELSE IF i = 2 THEN [pos EXCEPT !.tp2_hit = TRUE]
    ELSE [pos EXCEPT !.tp3_hit = TRUE]

TpName(i) == IF i = 1 THEN "TP1" ELSE IF i = 2 THEN "TP2" ELSE "TP3"

\* backtester.py:726-727: is_hit
TpHit(pos, candle, i) ==
    \/ pos.direction = "long" /\ candle.h >= TpPrice(pos, i)
    \/ pos.direction = "short" /\ candle.l <= TpPrice(pos, i)

\* one iteration of the take-profit loop without the test of the hit flag
TakeProfit_NoFlag(st, candle, i) ==
    IF TpHit(st.pos, candle, i)
    THEN LET qty_to_close == TpQty(st.pos, i)
             pnl == Pnl(st.pos, TpPrice(st.pos, i), qty_to_close)
         IN [pos |-> SetTpFlag([st.pos EXCEPT !.quantity = @ - qty_to_close], i),
             equity |-> st.equity + pnl,
             trades |-> Append(st.trades,
                               Trade(candle.t, st.pos, pnl, TpName(i)))]
    ELSE st

\* backtester.py:725-733: one iteration of for i in range(3)
TakeProfit(st, candle, i) ==
    IF ~TpFlag(st.pos, i) /\ TpHit(st.pos, candle, i)
    THEN LET qty_to_close == TpQty(st.pos, i)
             pnl == Pnl(st.pos, TpPrice(st.pos, i), qty_to_close)
         IN [pos |-> SetTpFlag([st.pos EXCEPT !.quantity = @ - qty_to_close], i),
             equity |-> st.equity + pnl,
             trades |-> Append(st.trades,
                               Trade(candle.t, st.pos, pnl, TpName(i)))]
    ELSE st

\* a position whose TP3 was hit is kept
DropIfDone_Keep(st) == st

\* backtester.py:735-736: a position whose TP3 was hit is dropped
DropIfDone(st) == IF st.pos.tp3_hit THEN [st EXCEPT !.pos = None] ELSE st

\* backtester.py:718-736: the take-profit block, the three iterations in order
TakeProfits(st, candle) ==
    IF st.pos # None
    THEN CHOOSE r \in
           { DropIfDone(s3) : s3 \in
             { TakeProfit(s2, candle, 3) : s2 \in
               { TakeProfit(s1, candle, 2) : s1 \in
                 { TakeProfit(s0, candle, 1) : s0 \in {st} } } } } : TRUE
    ELSE st

\* exit logic without the stop-loss block
ExitLogic_NoStop(st, candle) ==
    IF st.pos # None THEN TakeProfits(st, candle) ELSE st

\* exit logic with the take-profit block ahead of the stop-loss block
ExitLogic_TpFirst(st, candle) ==
    IF st.pos # None THEN StopLoss(TakeProfits(st, candle), candle) ELSE st

\* backtester.py:708-736: exit logic on one sub-candle
ExitLogic(st, candle) ==
    IF st.pos # None THEN TakeProfits(StopLoss(st, candle), candle) ELSE st

\* backtester.py:747-748: the reversal test
IsReversal(pos, z) ==
    \/ pos.direction = "long" /\ z.supply # None
    \/ pos.direction = "short" /\ z.demand # None

\* the reversal exit at the sub-candle's close
ReversalExit_AtClose(st, candle, z) ==
    IF st.pos # None /\ IsReversal(st.pos, z)
    THEN LET exit_price == candle.c
             pnl == Pnl(st.pos, exit_price, st.pos.quantity)
         IN [pos |-> None, equity |-> st.equity + pnl,
             trades |-> Append(st.trades,
                               Trade(candle.t, st.pos, pnl, "Reversal"))]
    ELSE st

\* backtester.py:746-753: the reversal exit at the sub-candle's open
ReversalExit(st, candle, z) ==
    IF st.pos # None /\ IsReversal(st.pos, z)
    THEN LET exit_price == candle.o
             pnl == Pnl(st.pos, exit_price, st.pos.quantity)
         IN [pos |-> None, equity |-> st.equity + pnl,
             trades |-> Append(st.trades,
                               Trade(candle.t, st.pos, pnl, "Reversal"))]
    ELSE st

InZone(price, zone) == zone # None /\ price <= zone.high /\ price >= zone.low

\* the entry signal with the supply branch open to every mode
EntrySignal_ShortAnywhere(mode, entry_price, z) ==
    IF InZone(entry_price, z.demand)
    THEN IF mode = "futures" \/ mode = "spot"
         THEN [direction |-> "long", zone |-> z.demand] ELSE None
    ELSE IF InZone(entry_price, z.supply)
    THEN [direction |-> "short", zone |-> z.supply]
    ELSE None

\* backtester.py:760-763: direction and zone of the entry, None if no entry
EntrySignal(mode, entry_price, z) ==
    IF InZone(entry_price, z.demand)
    THEN IF mode = "futures" \/ mode = "spot"
         THEN [direction |-> "long", zone |-> z.demand] ELSE None
    ELSE IF InZone(entry_price, z.supply)
    THEN IF mode = "futures"
         THEN [direction |-> "short", zone |-> z.supply] ELSE None
    ELSE None

\* the stop on the edge of the zone, without the buffer of 0.1%
StopFor_OnEdge(direction, zone) ==
    IF direction = "long" THEN zone.low ELSE zone.high

\* backtester.py:766: sl = zone['low'] * 0.999 or zone['high'] * 1.001
StopFor(direction, zone) ==
    IF direction = "long" THEN FDiv(zone.low * 999, 1000)
    ELSE FDiv(zone.high * 1001, 1000)

\* backtester.py:776-784: total_quantity and initial_margin
\* the futures quantity sized on twice the risk amount
Sizing_Doubled(c, eq, entry_price, risk_per_unit) ==
    IF c.mode = "futures"
    THEN LET risk_amount == FDiv(eq * c.risk_percentage, 100)
             total_quantity == FDiv(risk_amount * 2, risk_per_unit)
         IN [total_quantity |-> total_quantity,
             initial_margin |-> FDiv(entry_price * total_quantity, c.leverage)]
    ELSE LET invest == FDiv(eq * c.risk_percentage, 100)
             invest_amount == IF invest > eq THEN eq ELSE invest
         IN [total_quantity |-> FDiv(invest_amount, entry_price),
             initial_margin |-> invest_amount]

Sizing(c, eq, entry_price, risk_per_unit) ==
    IF c.mode = "futures"
    THEN LET risk_amount == FDiv(eq * c.risk_percentage, 100)
             total_quantity == FDiv(risk_amount, risk_per_unit)
         IN [total_quantity |-> total_quantity,
             initial_margin |-> FDiv(entry_price * total_quantity, c.leverage)]
    ELSE LET invest == FDiv(eq * c.risk_percentage, 100)
             invest_amount == IF invest > eq THEN eq ELSE invest
         IN [total_quantity |-> FDiv(invest_amount, entry_price),
             initial_margin |-> invest_amount]

\* the position dictionary with three equal take-profit quantities of 33%
NewPosition_Thirds(direction, entry_price, sl, risk_per_unit, size) ==
    LET q == size.total_quantity
        sgn == IF direction = "long" THEN 1 ELSE -1
    IN [entry_price |-> entry_price, quantity |-> q, direction |-> direction,
        sl |-> sl,
        tp1 |-> entry_price + sgn * risk_per_unit,
        tp2 |-> entry_price + sgn * risk_per_unit * 2,
        tp3 |-> entry_price + sgn * risk_per_unit * 3,
        tp1_qty |-> FDiv(q * 33, 100), tp2_qty |-> FDiv(q * 33, 100),
        tp3_qty |-> FDiv(q * 33, 100),
        initial_margin |-> IF size.initial_margin > 0
                           THEN size.initial_margin ELSE 1,
        tp1_hit |-> FALSE, tp2_hit |-> FALSE, tp3_hit |-> FALSE]

\* backtester.py:787-793: the position dictionary
NewPosition(direction, entry_price, sl, risk_per_unit, size) ==
    LET q == size.total_quantity
        sgn == IF direction = "long" THEN 1 ELSE -1
    IN [entry_price |-> entry_price, quantity |-> q, direction |-> direction,
        sl |-> sl,
        tp1 |-> entry_price + sgn * risk_per_unit,
        tp2 |-> entry_price + sgn * risk_per_unit * 2,
        tp3 |-> entry_price + sgn * risk_per_unit * 3,
        tp1_qty |-> FDiv(q * 33, 100), tp2_qty |-> FDiv(q * 33, 100),
        tp3_qty |-> q - FDiv(q * 33, 100) * 2,
        initial_margin |-> IF size.initial_margin > 0
                           THEN size.initial_margin ELSE 1,
        tp1_hit |-> FALSE, tp2_hit |-> FALSE, tp3_hit |-> FALSE]

\* the entry check without the test "if not open_position"
EntryLogic_Overwrite(c, pos, eq, candle, z) ==
    LET entry_price == candle.o
        sig == EntrySignal(c.mode, entry_price, z)
    IN IF sig # None
       THEN LET sl == StopFor(sig.direction, sig.zone)
                risk_per_unit == Abs(entry_price - sl)
            IN IF risk_per_unit > 0 /\ eq > 0
               THEN LET size == Sizing(c, eq, entry_price, risk_per_unit)
                    IN IF size.total_quantity > 0
                       THEN NewPosition(sig.direction, entry_price, sl,
                                        risk_per_unit, size)
                       ELSE pos
               ELSE pos
       ELSE pos

\* the entry check without the test "if total_quantity > 0"
EntryLogic_AnyQuantity(c, pos, eq, candle, z) ==
    IF pos = None
    THEN LET entry_price == candle.o
             sig == EntrySignal(c.mode, entry_price, z)
         IN IF sig # None
            THEN LET sl == StopFor(sig.direction, sig.zone)
                     risk_per_unit == Abs(entry_price - sl)
                 IN IF risk_per_unit > 0 /\ eq > 0
                    THEN NewPosition(sig.direction, entry_price, sl,
                                     risk_per_unit,
                                     Sizing(c, eq, entry_price, risk_per_unit))
                    ELSE pos
            ELSE pos
    ELSE pos

\* backtester.py:756-793: the position after the entry check
EntryLogic(c, pos, eq, candle, z) ==
    IF pos = None
    THEN LET entry_price == candle.o
             sig == EntrySignal(c.mode, entry_price, z)
         IN IF sig # None
            THEN LET sl == StopFor(sig.direction, sig.zone)
                     risk_per_unit == Abs(entry_price - sl)
                 IN IF risk_per_unit > 0 /\ eq > 0
                    THEN LET size == Sizing(c, eq, entry_price, risk_per_unit)
                         IN IF size.total_quantity > 0
                            THEN NewPosition(sig.direction, entry_price, sl,
                                             risk_per_unit, size)
                            ELSE pos
                    ELSE pos
            ELSE pos
    ELSE pos

-----------------------------------------------------------------------------
(* Final metrics, backtester.py:797-830 *)

\* a JSON number and the JSON string "Infinity"
Num(x) == [num |-> x]

Infinity == [str |-> "Infinity"]

RECURSIVE SumPnl(_, _)
SumPnl(log, k) == IF k = 0 THEN 0 ELSE SumPnl(log, k - 1) + log[k].pnl

\* sum(t['pnl'] for t in trades if t['pnl'] > 0)
RECURSIVE TotalProfit(_, _)
TotalProfit(log, k) ==
    IF k = 0 THEN 0
    ELSE TotalProfit(log, k - 1) + (IF log[k].pnl > 0 THEN log[k].pnl ELSE 0)

\* abs(sum(t['pnl'] for t in trades if t['pnl'] <= 0))
RECURSIVE LossSum(_, _)
LossSum(log, k) ==
    IF k = 0 THEN 0
    ELSE LossSum(log, k - 1) + (IF log[k].pnl <= 0 THEN log[k].pnl ELSE 0)

TotalLoss(log) == Abs(LossSum(log, Len(log)))

\* len([t for t in trades if t['pnl'] > 0])
RECURSIVE WinCount(_, _)
WinCount(log, k) ==
    IF k = 0 THEN 0
    ELSE WinCount(log, k - 1) + (IF log[k].pnl > 0 THEN 1 ELSE 0)

\* backtester.py:811, in hundredths
profit_factor(log) ==
    IF TotalLoss(log) > 0
    THEN Num(FDiv(TotalProfit(log, Len(log)) * 100, TotalLoss(log)))
    ELSE Infinity

\* main.py:591, in hundredths
profit_factor_main(log) ==
    IF TotalLoss(log) > 0
    THEN Num(FDiv(TotalProfit(log, Len(log)) * 100, TotalLoss(log)))
    ELSE Infinity

\* backtester_spot.py:807, in hundredths
profit_factor_spot(log) ==
    IF TotalLoss(log) > 0
    THEN Num(FDiv(TotalProfit(log, Len(log)) * 100, TotalLoss(log)))
    ELSE Num(0)

\* max_dd with a peak that stays at its first value
RECURSIVE MaxDd_FixedPeak(_, _, _, _)
MaxDd_FixedPeak(curve, k, peak, max_dd) ==
    IF k > Len(curve) THEN max_dd
    ELSE LET dd == IF peak # 0 THEN FDiv((peak - curve[k].equity) * 100, peak)
                   ELSE 0
         IN MaxDd_FixedPeak(curve, k + 1, peak, Max(max_dd, dd))

\* backtester.py:814-817: the body of the loop for one point
DdStep(point, peak, max_dd) ==
    LET p == IF point.equity > peak THEN point.equity ELSE peak
        dd == IF p # 0 THEN FDiv((p - point.equity) * 100, p) ELSE 0
    IN [peak |-> p, max_dd |-> Max(max_dd, dd)]

\* backtester.py:813-817: max_dd over the curve, in percent
MaxDd(curve, k, peak, max_dd) ==
    LET Loop[at \in Nat \X Int \X Int] ==
            IF at[1] > Len(curve) THEN at[3]
            ELSE LET st == DdStep(curve[at[1]], at[2], at[3])
                 IN Loop[<<at[1] + 1, st.peak, st.max_dd>>]
    IN Loop[<<k, peak, max_dd>>]

\* the metrics dictionary with a win rate of 100 for an empty log
Metrics_EmptyLogWins(c, final_equity, dca, log, curve) ==
    LET net_profit == final_equity - c.starting_equity - dca
        total_pnl_events == Len(log)
    IN [net_profit |-> net_profit,
        total_trades |-> total_pnl_events,
        win_rate |-> IF total_pnl_events > 0
                     THEN FDiv(WinCount(log, Len(log)) * 100, total_pnl_events)
                     ELSE 100,
        profit_factor |-> profit_factor(log),
        max_drawdown |-> MaxDd(curve, 1, c.starting_equity, 0),
        avg_trade_pnl |-> IF total_pnl_events > 0
                          THEN FDiv(net_profit, total_pnl_events) ELSE 0]

\* backtester.py:804-828: the metrics dictionary
Metrics(c, final_equity, dca, log, curve) ==
    LET net_profit == final_equity - c.starting_equity - dca
        total_pnl_events == Len(log)
    IN [net_profit |-> net_profit,
        total_trades |-> total_pnl_events,
        win_rate |-> IF total_pnl_events > 0
                     THEN FDiv(WinCount(log, Len(log)) * 100, total_pnl_events)
                     ELSE 0,
        profit_factor |-> profit_factor(log),
        max_drawdown |-> MaxDd(curve, 1, c.starting_equity, 0),
        avg_trade_pnl |-> IF total_pnl_events > 0
                          THEN FDiv(net_profit, total_pnl_events) ELSE 0]

\* equity with the open position marked at the last candle's open
FinalEquity_AtOpen(eq, pos, last) ==
    IF pos # None THEN eq + Pnl(pos, last.o, pos.quantity) ELSE eq

\* backtester.py:797-801: equity with the open position marked to market
FinalEquity(eq, pos, last) ==
    IF pos # None THEN eq + Pnl(pos, last.c, pos.quantity) ELSE eq

-----------------------------------------------------------------------------
(* The state machine of one call of run_backtest_simulation *)

current_ts == cfg.start_ts + idx

\* every sub-candle taken for a main-interval open
Aligned_EverySub == idx \div SubPerMain < fetched.n_main

\* current_ts in main_candle_open_timestamps
Aligned == idx % SubPerMain = 0 /\ idx \div SubPerMain < fetched.n_main

\* ts_to_main_candle_idx.get(current_ts)
current_main_idx == idx \div SubPerMain

\* history: the owner of the n trades just appended is the current position
Owned(h, n) ==
    [h EXCEPT !.owner = @ \o [k \in 1..n |-> h.serial]]

NoCandle == Candle(0, 0, 0, 0, 0)

NoZones == [supply |-> None, demand |-> None]

IdleMetrics == mlog = <<>> /\ mout = None

IdleGuard == garg = None /\ gout = None

IdleDrawdown == dcurve = <<>> /\ dout = None

\* no second call
IdleSuspended == suspended = None

IdleDetector == zcandles = <<>> /\ zout = None

\* the live program is not running
IdleLive ==
    /\ lock_owner = None
    /\ threads = None
    /\ ACTIVE_POSITIONS = <<>>
    /\ objects = <<>>
    /\ closers = None

Init ==
    /\ pc = "fetch"
    /\ cfg \in Configs
    /\ fetched \in Fetches
    /\ main_tail = <<>>
    /\ idx = 0
    /\ sub_candle = NoCandle
    /\ zones = NoZones
    /\ equity = 0
    /\ total_dca_added = 0
    /\ last_dca_time = 0
    /\ open_position = None
    /\ trades = <<>>
    /\ equity_curve = <<>>
    /\ result = None
    /\ hist = [serial |-> 0, qty0 |-> 0, equity0 |-> 0, entry_idx |-> 0, owner |-> <<>>,
                injections |-> <<>>]
    /\ IdleMetrics
    /\ IdleGuard
    /\ IdleDrawdown
    /\ IdleSuspended
    /\ IdleDetector
    /\ IdleLive

\* backtester.py:664 and :678: the two ValueErrors
Reject ==
    /\ pc = "fetch"
    /\ fetched.n_main < WarmUp \/ fetched.n_sub = 0
    /\ pc' = "raised"
    /\ result' = [error |-> IF fetched.n_main < WarmUp
                            THEN "Not enough historical data for the main interval."
                            ELSE "Not enough historical data for the sub-interval."]
    /\ UNCHANGED <<cfg, fetched, main_tail, idx, sub_candle, zones, equity,
                   total_dca_added, last_dca_time, open_position, trades,
                   equity_curve, hist, mlog, mout,
                   garg, gout, dcurve, dout, suspended,
                   zcandles, zout, live_vars>>

\* initialisation without the two tests of the fetched data
Begin_Unchecked ==
    /\ pc = "fetch"
    /\ pc' = "loop"
    /\ trades' = <<>>
    /\ equity_curve' = <<[time |-> cfg.start_ts, equity |-> cfg.starting_equity]>>
    /\ total_dca_added' = 0
    /\ last_dca_time' = cfg.start_ts
    /\ equity' = cfg.starting_equity
    /\ open_position' = None
    /\ UNCHANGED <<cfg, fetched, main_tail, idx, sub_candle, zones, result,
                   hist, mlog, mout, garg, gout, dcurve, dout, suspended,
                   zcandles, zout, live_vars>>

\* initialisation with the start of the deposit clock read from outside the
\* arguments
Begin_AnyClock ==
    /\ pc = "fetch"
    /\ fetched.n_main >= WarmUp /\ fetched.n_sub > 0
    /\ pc' = "loop"
    /\ trades' = <<>>
    /\ equity_curve' = <<[time |-> cfg.start_ts, equity |-> cfg.starting_equity]>>
    /\ total_dca_added' = 0
    /\ last_dca_time' \in {cfg.start_ts, cfg.start_ts + 1}
    /\ equity' = cfg.starting_equity
    /\ open_position' = None
    /\ UNCHANGED <<cfg, fetched, main_tail, idx, sub_candle, zones, result,
                   hist, mlog, mout, garg, gout, dcurve, dout, suspended,
                   zcandles, zout, live_vars>>

\* backtester.py:680-690: initialisation
Begin ==
    /\ pc = "fetch"
    /\ ~(fetched.n_main < WarmUp) /\ fetched.n_sub # 0
    /\ pc' = "loop"
    /\ trades' = <<>>
    /\ equity_curve' = <<[time |-> cfg.start_ts, equity |-> cfg.starting_equity]>>
    /\ total_dca_added' = 0
    /\ last_dca_time' = cfg.start_ts
    /\ equity' = cfg.starting_equity
    /\ open_position' = None
    /\ UNCHANGED <<cfg, fetched, main_tail, idx, sub_candle, zones, result,
                   hist, mlog, mout,
                   garg, gout, dcurve, dout, suspended,
                   zcandles, zout, live_vars>>

\* backtester.py:694-705: the next sub-candle, of one of the given shapes, and
\* the DCA deposit
ReadCandle(shapes) ==
    /\ pc = "loop"
    /\ idx < fetched.n_sub
    /\ \E sh \in shapes :
          sub_candle' = Candle(current_ts, sh[1], sh[2], sh[3], sh[4])
    /\ IF DcaDue(cfg, current_ts, last_dca_time)
       THEN /\ equity' = equity + cfg.dca_amount
            /\ total_dca_added' = total_dca_added + cfg.dca_amount
            /\ last_dca_time' = current_ts
       ELSE UNCHANGED <<equity, total_dca_added, last_dca_time>>
    /\ hist' = IF DcaDue(cfg, current_ts, last_dca_time)
               THEN [hist EXCEPT !.injections = Append(@, current_ts)]
               ELSE hist
    /\ pc' = "exit"
    /\ UNCHANGED <<cfg, fetched, main_tail, idx, zones, open_position, trades,
                   equity_curve, result, mlog, mout,
                   garg, gout, dcurve, dout, suspended,
                   zcandles, zout, live_vars>>

NextCandle == ReadCandle(SubShapes)

\* backtester.py:707-736: stop-loss and take-profits on the sub-candle
ExitEval ==
    /\ pc = "exit"
    /\ \E st \in {ExitLogic([pos |-> open_position, equity |-> equity,
                              trades |-> trades], sub_candle)} :
          /\ open_position' = st.pos
          /\ equity' = st.equity
          /\ trades' = st.trades
          /\ hist' = Owned(hist, Len(st.trades) - Len(trades))
    /\ pc' = "signal"
    /\ UNCHANGED <<cfg, fetched, main_tail, idx, sub_candle, zones,
                   total_dca_added, last_dca_time, equity_curve, result,
                   mlog, mout,
                   garg, gout, dcurve, dout, suspended,
                   zcandles, zout, live_vars>>

\* a sub-candle inside a main candle that adds an equity sample
NotAligned_Sampled ==
    /\ pc = "signal"
    /\ ~Aligned
    /\ equity_curve' = Append(equity_curve,
                              [time |-> current_ts, equity |-> equity])
    /\ pc' = "loop"
    /\ idx' = idx + 1
    /\ UNCHANGED <<cfg, fetched, main_tail, sub_candle, zones, equity,
                   total_dca_added, last_dca_time, open_position, trades,
                   result, hist, mlog, mout, garg, gout, dcurve, dout, suspended,
                   zcandles, zout, live_vars>>

\* backtester.py:739: a sub-candle that opens inside a main candle
NotAligned ==
    /\ pc = "signal"
    /\ ~Aligned
    /\ pc' = "loop"
    /\ idx' = idx + 1
    /\ UNCHANGED <<cfg, fetched, main_tail, sub_candle, zones, equity,
                   total_dca_added, last_dca_time, open_position, trades,
                   equity_curve, result, hist, mlog, mout,
                   garg, gout, dcurve, dout, suspended,
                   zcandles, zout, live_vars>>

\* backtester.py:739-741 and :795: a main candle open during the warm-up
WarmingUp ==
    /\ pc = "signal"
    /\ Aligned
    /\ ~(current_main_idx # 0 /\ current_main_idx >= WarmUp)
    /\ equity_curve' = Append(equity_curve,
                              [time |-> current_ts, equity |-> equity])
    /\ pc' = "loop"
    /\ idx' = idx + 1
    /\ UNCHANGED <<cfg, fetched, main_tail, sub_candle, zones, equity,
                   total_dca_added, last_dca_time, open_position, trades,
                   result, hist, mlog, mout,
                   garg, gout, dcurve, dout, suspended,
                   zcandles, zout, live_vars>>

\* the signal block entered one main candle before the end of the warm-up
Reversal_Early ==
    /\ pc = "signal"
    /\ Aligned
    /\ current_main_idx # 0 /\ current_main_idx >= WarmUp - 1
    /\ \E sh \in MainShapes :
          main_tail' = Append(main_tail,
                              Candle(current_ts, sh[1], sh[2], sh[3], sh[4]))
    /\ LET all_candles_raw == AllCandles(main_tail')
           history_slice == Slice(all_candles_raw,
                                  Max(0, current_main_idx - Lookback),
                                  current_main_idx + 1)
       IN zones' = find_supply_demand_zones(history_slice)
    /\ LET st == ReversalExit([pos |-> open_position, equity |-> equity,
                               trades |-> trades], sub_candle, zones')
       IN /\ open_position' = st.pos
          /\ equity' = st.equity
          /\ trades' = st.trades
          /\ hist' = Owned(hist, Len(st.trades) - Len(trades))
    /\ pc' = "entry"
    /\ UNCHANGED <<cfg, fetched, idx, sub_candle, total_dca_added,
                   last_dca_time, equity_curve, result, mlog, mout,
                   garg, gout, dcurve, dout, suspended,
                   zcandles, zout, live_vars>>

\* backtester.py:742-753: the detector on the history slice and the reversal
Reversal ==
    /\ pc = "signal"
    /\ Aligned
    /\ current_main_idx # 0 /\ current_main_idx >= WarmUp
    /\ \E sh \in MainShapes :
          main_tail' = Append(main_tail,
                              Candle(current_ts, sh[1], sh[2], sh[3], sh[4]))
    /\ LET all_candles_raw == AllCandles(main_tail')
           history_slice == Slice(all_candles_raw,
                                  Max(0, current_main_idx - Lookback),
                                  current_main_idx + 1)
       IN zones' = find_supply_demand_zones(history_slice)
    /\ LET st == ReversalExit([pos |-> open_position, equity |-> equity,
                               trades |-> trades], sub_candle, zones')
       IN /\ open_position' = st.pos
          /\ equity' = st.equity
          /\ trades' = st.trades
          /\ hist' = Owned(hist, Len(st.trades) - Len(trades))
    /\ pc' = "entry"
    /\ UNCHANGED <<cfg, fetched, idx, sub_candle, total_dca_added,
                   last_dca_time, equity_curve, result, mlog, mout,
                   garg, gout, dcurve, dout, suspended,
                   zcandles, zout, live_vars>>

\* the entry check with the initial margin taken out of the running equity
Entry_MarginDebited ==
    /\ pc = "entry"
    /\ open_position' = EntryLogic(cfg, open_position, equity, sub_candle, zones)
    /\ hist' = IF open_position' # open_position
               THEN [hist EXCEPT !.serial = @ + 1,
                                 !.qty0 = open_position'.quantity,
                                 !.equity0 = equity,
                                 !.entry_idx = idx]
               ELSE hist
    /\ equity' = IF open_position' # open_position
                 THEN equity - open_position'.initial_margin
                 ELSE equity
    /\ equity_curve' = Append(equity_curve,
                              [time |-> current_ts, equity |-> equity'])
    /\ pc' = "loop"
    /\ idx' = idx + 1
    /\ UNCHANGED <<cfg, fetched, main_tail, sub_candle, zones,
                   total_dca_added, last_dca_time, trades, result, mlog, mout,
                   garg, gout, dcurve, dout, suspended,
                   zcandles, zout, live_vars>>

\* the entry check followed by an exit evaluation of the new position on the
\* same sub-candle
Entry_ThenExit ==
    /\ pc = "entry"
    /\ \E p \in {EntryLogic(cfg, open_position, equity, sub_candle, zones)} :
       \E st \in {IF p # open_position
                  THEN ExitLogic([pos |-> p, equity |-> equity,
                                  trades |-> trades], sub_candle)
                  ELSE [pos |-> p, equity |-> equity, trades |-> trades]} :
          /\ open_position' = st.pos
          /\ equity' = st.equity
          /\ trades' = st.trades
          /\ hist' = IF p # open_position
                     THEN Owned([hist EXCEPT !.serial = @ + 1,
                                             !.qty0 = p.quantity,
                                             !.equity0 = equity,
                                             !.entry_idx = idx],
                                Len(st.trades) - Len(trades))
                     ELSE hist
    /\ equity_curve' = Append(equity_curve,
                              [time |-> current_ts, equity |-> equity'])
    /\ pc' = "loop"
    /\ idx' = idx + 1
    /\ UNCHANGED <<cfg, fetched, main_tail, sub_candle, zones,
                   total_dca_added, last_dca_time, result, mlog, mout,
                   garg, gout, dcurve, dout, suspended,
                   zcandles, zout, live_vars>>

\* backtester.py:755-795: the entry check and the equity sample
Entry ==
    /\ pc = "entry"
    /\ open_position' = EntryLogic(cfg, open_position, equity, sub_candle, zones)
    /\ hist' = IF open_position' # open_position
               THEN [hist EXCEPT !.serial = @ + 1,
                                 !.qty0 = open_position'.quantity,
                                 !.equity0 = equity,
                                 !.entry_idx = idx]
               ELSE hist
    /\ equity_curve' = Append(equity_curve,
                              [time |-> current_ts, equity |-> equity])
    /\ pc' = "loop"
    /\ idx' = idx + 1
    /\ UNCHANGED <<cfg, fetched, main_tail, sub_candle, zones, equity,
                   total_dca_added, last_dca_time, trades, result, mlog, mout,
                   garg, gout, dcurve, dout, suspended,
                   zcandles, zout, live_vars>>

\* backtester.py:797-830: mark to market (the local final_equity) and the metrics
Finish ==
    /\ pc = "loop"
    /\ idx >= fetched.n_sub
    /\ LET final_equity == FinalEquity(equity, open_position, sub_candle)
       IN result' = [final_equity |-> final_equity,
                     metrics |-> Metrics(cfg, final_equity, total_dca_added,
                                         trades, equity_curve)]
    /\ pc' = "returned"
    /\ UNCHANGED <<cfg, fetched, main_tail, idx, sub_candle, zones, equity,
                   total_dca_added, last_dca_time, open_position, trades,
                   equity_curve, hist, mlog, mout,
                   garg, gout, dcurve, dout, suspended,
                   zcandles, zout, live_vars>>

\* backtester.py:951-964: the response of handle_backtest to the call
handle_backtest ==
    IF pc = "returned"
    THEN [status |-> 200,
          body |-> [metrics |-> result.metrics, trades |-> trades,
                    equity_curve |-> equity_curve]]
    ELSE IF pc = "raised"
    THEN [status |-> 400, body |-> [error |-> result.error]]
    ELSE None

Next ==
    \/ Reject
    \/ Begin
    \/ NextCandle
    \/ ExitEval
    \/ NotAligned
    \/ WarmingUp
    \/ Reversal
    \/ Entry
    \/ Finish

Spec == Init /\ [][Next]_vars

\* the call runs to its end: a step that can be taken is taken
LiveSpec == Spec /\ WF_vars(Next)

-----------------------------------------------------------------------------
(* The profit factor of the three backtesters applied to bounded trade logs *)

\* the pnl values of the logged trades: losses, a zero and wins
PnlValues == {-20000, -1, 0, 1, 30000}

\* a logged trade with the given pnl
LogTrade(p) ==
    [exit_time |-> 0, direction |-> "LONG", pnl |-> p, return_pct |-> 0,
     exit_reason |-> IF p > 0 THEN "TP1" ELSE "SL"]

MetricsInit ==
    /\ pc = "metrics"
    /\ cfg = None
    /\ fetched = None
    /\ main_tail = <<>>
    /\ idx = 0
    /\ sub_candle = NoCandle
    /\ zones = NoZones
    /\ equity = 0
    /\ total_dca_added = 0
    /\ last_dca_time = 0
    /\ open_position = None
    /\ trades = <<>>
    /\ equity_curve = <<>>
    /\ result = None
    /\ hist = [serial |-> 0, qty0 |-> 0, equity0 |-> 0, entry_idx |-> 0, owner |-> <<>>,
                injections |-> <<>>]
    /\ mlog = <<>>
    /\ mout = None
    /\ IdleGuard
    /\ IdleDrawdown
    /\ IdleSuspended
    /\ IdleDetector
    /\ IdleLive

\* trades.append(...): one more record in the log
AddTrade ==
    /\ pc = "metrics"
    /\ mout = None
    /\ Len(mlog) < MaxLog
    /\ \E p \in PnlValues : mlog' = Append(mlog, LogTrade(p))
    /\ UNCHANGED <<pc, cfg, fetched, main_tail, idx, sub_candle, zones, equity,
                   total_dca_added, last_dca_time, open_position, trades,
                   equity_curve, result, hist, mout,
                   garg, gout, dcurve, dout, suspended,
                   zcandles, zout, live_vars>>

\* the profit_factor each backtester reports for the log
Summarize ==
    /\ pc = "metrics"
    /\ mout = None
    /\ mout' = [backtester |-> profit_factor(mlog),
                main |-> profit_factor_main(mlog),
                spot |-> profit_factor_spot(mlog)]
    /\ UNCHANGED <<pc, cfg, fetched, main_tail, idx, sub_candle, zones, equity,
                   total_dca_added, last_dca_time, open_position, trades,
                   equity_curve, result, hist, mlog,
                   garg, gout, dcurve, dout, suspended,
                   zcandles, zout, live_vars>>

MetricsNext ==
    \/ AddTrade
    \/ Summarize

MetricsSpec == MetricsInit /\ [][MetricsNext]_vars

-----------------------------------------------------------------------------
(* Properties of the replay *)

\* C1: equity conservation.  After every step of the replay the running
\* equity equals starting_equity + total_dca_added + the sum of the pnl logged
\* so far; when the simulation has returned, final_equity is that sum plus
\* the mark-to-market pnl of the still-open position at the last sub-candle's
\* close (0 if none), and net_profit is the logged pnl plus that term.
C1_EquityConservation ==
    LET logged == SumPnl(trades, Len(trades))
        mtm == IF open_position = None THEN 0
               ELSE IF open_position.direction = "long"
               THEN (sub_candle.c - open_position.entry_price)
                    * open_position.quantity
               ELSE (open_position.entry_price - sub_candle.c)
                    * open_position.quantity
    IN /\ pc \in {"loop", "exit", "signal", "entry", "returned"} =>
            equity = cfg.starting_equity + total_dca_added + logged
       /\ pc = "returned" =>
            /\ result.final_equity =
                   cfg.starting_equity + total_dca_added + logged + mtm
            /\ result.metrics.net_profit = logged + mtm

\* a finished run with deposits, logged trades and a position still open with
\* a pnl at the last close
C1_Witness ==
    /\ pc = "returned"
    /\ total_dca_added > 0
    /\ Len(trades) >= 2
    /\ open_position # None
    /\ sub_candle.c # open_position.entry_price
    /\ result.final_equity # equity

\* C2: at most one position.  The entry check leaves an open position as it
\* is, a position is created only by the entry check, and only at a step
\* where no position is open.
C2_SinglePosition ==
    [][/\ (pc = "entry" /\ open_position # None) =>
              open_position' = open_position
       /\ (open_position = None /\ open_position' # None) => pc = "entry"
       /\ hist'.serial # hist.serial =>
              (open_position = None /\ open_position' # None)]_vars

\* the entry check has run with a position open and the sub-candle's open
\* inside a zone that gives an entry signal
C2_Witness ==
    /\ pc = "loop"
    /\ idx > 0
    /\ Len(equity_curve) > WarmUp + 1
    /\ open_position # None
    /\ hist.entry_idx < idx - 1
    /\ equity_curve[Len(equity_curve)].time = sub_candle.t
    /\ EntrySignal(cfg.mode, sub_candle.o, zones) # None

\* C3: stop-loss priority.  On a sub-candle whose range touches the stop-loss
\* of the open position exactly one trade is appended, its exit_reason is SL,
\* it closes the whole remaining quantity at the stop-loss price, the position
\* becomes none, and no other trade carries the exit time of an SL trade.
C3_StopLossPriority ==
    /\ [][(pc = "exit" /\ open_position # None
           /\ SlHit(open_position, sub_candle)) =>
              /\ open_position' = None
              /\ Len(trades') = Len(trades) + 1
              /\ SubSeq(trades', 1, Len(trades)) = trades
              /\ LET t == trades'[Len(trades')]
                     p == open_position
                 IN /\ t.exit_reason = "SL"
                    /\ t.exit_time = sub_candle.t
                    /\ t.pnl = (IF p.direction = "long"
                                THEN p.sl - p.entry_price
                                ELSE p.entry_price - p.sl) * p.quantity]_vars
    /\ [](\A i, j \in 1..Len(trades) :
             (trades[i].exit_reason = "SL" /\ i # j) =>
                 trades[j].exit_time # trades[i].exit_time)

\* the exit evaluation has logged an SL on a candle whose range also reaches
\* the take-profit levels
C3_Witness ==
    /\ pc = "signal"
    /\ Len(trades) > 0
    /\ trades[Len(trades)].exit_reason = "SL"
    /\ trades[Len(trades)].exit_time = sub_candle.t
    /\ sub_candle.h >= 15000
    /\ sub_candle.l <= 9000

\* C4: staged take-profits.  With no stop-loss hit, the exit evaluation of a
\* sub-candle appends one trade for each level that is reached and whose hit
\* flag is unset, and for no other level, in ascending level order; each closes
\* that level's quantity at that level's price; and in the whole log the
\* take-profit trades of one position have strictly ascending levels, so each
\* level is logged at most once per position.
C4_StagedTakeProfits ==
    /\ [][(pc = "exit" /\ open_position # None
           /\ ~SlHit(open_position, sub_candle)) =>
             LET Level(r) == IF r = "TP1" THEN 1 ELSE IF r = "TP2" THEN 2
                             ELSE IF r = "TP3" THEN 3 ELSE 0
                 p == open_position
                 fired == {i \in 1..3 : ~TpFlag(p, i) /\ TpHit(p, sub_candle, i)}
                 new == SubSeq(trades', Len(trades) + 1, Len(trades'))
                 closed == (IF 1 \in fired THEN p.tp1_qty ELSE 0)
                           + (IF 2 \in fired THEN p.tp2_qty ELSE 0)
                           + (IF 3 \in fired THEN p.tp3_qty ELSE 0)
             IN /\ SubSeq(trades', 1, Len(trades)) = trades
                /\ Len(new) = Cardinality(fired)
                /\ \A k \in 1..Len(new) :
                      LET i == Level(new[k].exit_reason)
                      IN /\ i \in fired
                         /\ new[k].exit_time = sub_candle.t
                         /\ new[k].pnl =
                              (IF p.direction = "long"
                               THEN TpPrice(p, i) - p.entry_price
                               ELSE p.entry_price - TpPrice(p, i))
                              * TpQty(p, i)
                /\ \A k1, k2 \in 1..Len(new) :
                      k1 < k2 => Level(new[k1].exit_reason)
                                 < Level(new[k2].exit_reason)
                /\ open_position' # None =>
                      open_position'.quantity = p.quantity - closed]_vars
    /\ [](LET Level(r) == IF r = "TP1" THEN 1 ELSE IF r = "TP2" THEN 2
                          ELSE IF r = "TP3" THEN 3 ELSE 0
          IN \A i, j \in 1..Len(trades) :
                (/\ i < j
                 /\ hist.owner[i] = hist.owner[j]
                 /\ Level(trades[i].exit_reason) > 0
                 /\ Level(trades[j].exit_reason) > 0) =>
                    Level(trades[i].exit_reason) < Level(trades[j].exit_reason))

\* one sub-candle has reached the three levels of a position: TP1, TP2 and TP3
\* are the last three trades, all at this candle's time
C4_Witness ==
    /\ pc = "signal"
    /\ Len(trades) >= 3
    /\ trades[Len(trades) - 2].exit_reason = "TP1"
    /\ trades[Len(trades) - 1].exit_reason = "TP2"
    /\ trades[Len(trades)].exit_reason = "TP3"
    /\ trades[Len(trades) - 2].exit_time = sub_candle.t
    /\ trades[Len(trades)].exit_time = sub_candle.t

\* C5: a position whose TP3 level is hit is none at the end of that
\* sub-candle's exit evaluation, no open position carries a set tp3_hit flag,
\* and no trade is logged for a position after its TP3 trade.
C5_Tp3ClosesPosition ==
    /\ [][(pc = "exit" /\ open_position # None
           /\ TpHit(open_position, sub_candle, 3)) =>
              open_position' = None]_vars
    /\ [](open_position # None => ~open_position.tp3_hit)
    /\ [](\A i, j \in 1..Len(trades) :
             (i < j /\ trades[i].exit_reason = "TP3") =>
                 hist.owner[j] # hist.owner[i])

\* TP3 alone is hit on this sub-candle, TP1 and TP2 having been hit on earlier
\* candles, and the position is gone
C5_Witness ==
    /\ pc = "signal"
    /\ open_position = None
    /\ Len(trades) >= 3
    /\ trades[Len(trades)].exit_reason = "TP3"
    /\ trades[Len(trades)].exit_time = sub_candle.t
    /\ trades[Len(trades) - 1].exit_reason = "TP2"
    /\ trades[Len(trades) - 1].exit_time < sub_candle.t

\* C6: reversal.  At a signal evaluation with a long position open and a
\* supply zone detected, or a short position open and a demand zone detected,
\* exactly one trade is appended, its exit_reason is Reversal, its pnl is
\* (open - entry) * remaining quantity for a long and (entry - open) *
\* remaining quantity for a short, and the position is none after the
\* reversal check.
C6_Reversal ==
    [][(/\ pc = "signal"
        /\ pc' = "entry"
        /\ open_position # None
        /\ \/ open_position.direction = "long" /\ zones'.supply # None
           \/ open_position.direction = "short" /\ zones'.demand # None) =>
           /\ open_position' = None
           /\ Len(trades') = Len(trades) + 1
           /\ SubSeq(trades', 1, Len(trades)) = trades
           /\ LET t == trades'[Len(trades')]
                  p == open_position
              IN /\ t.exit_reason = "Reversal"
                 /\ t.exit_time = sub_candle.t
                 /\ t.pnl = (IF p.direction = "long"
                             THEN sub_candle.o - p.entry_price
                             ELSE p.entry_price - sub_candle.o) * p.quantity]_vars

\* a short position has just been reversed on a demand zone, at an open price
\* different from its entry price
C6_Witness ==
    /\ pc = "entry"
    /\ open_position = None
    /\ zones.demand # None
    /\ Len(trades) > 0
    /\ trades[Len(trades)].exit_reason = "Reversal"
    /\ trades[Len(trades)].exit_time = sub_candle.t
    /\ trades[Len(trades)].direction = "SHORT"
    /\ trades[Len(trades)].pnl # 0

\* C7: a step in which a Reversal exit is recorded does not also open a
\* position: when the step of sub-candle t ends and the last logged trade is a
\* Reversal at t, the position is none.
C7_NoEntryAfterReversal ==
    (/\ pc = "loop"
     /\ idx > 0
     /\ Len(trades) > 0
     /\ trades[Len(trades)].exit_reason = "Reversal"
     /\ trades[Len(trades)].exit_time = cfg.start_ts + idx - 1) =>
        open_position = None

\* the step of a sub-candle has ended with a Reversal logged at its time and
\* a position opened in the same step
C7_Witness ==
    /\ pc = "loop"
    /\ idx > 0
    /\ Len(trades) > 0
    /\ trades[Len(trades)].exit_reason = "Reversal"
    /\ trades[Len(trades)].exit_time = sub_candle.t
    /\ open_position # None
    /\ hist.entry_idx = idx - 1
    /\ open_position.entry_price = sub_candle.o

\* C8: spot mode never shorts.  With mode = spot the open position, if any,
\* is long and no logged trade has direction SHORT.
C8_SpotNeverShorts ==
    (pc # "metrics" /\ cfg.mode = "spot") =>
        /\ open_position # None => open_position.direction = "long"
        /\ \A k \in 1..Len(trades) : trades[k].direction # "SHORT"

\* a spot run has evaluated the entry check on a sub-candle that opens inside
\* the supply zone and outside the demand zone
C8_Witness ==
    /\ pc = "loop"
    /\ cfg.mode = "spot"
    /\ Len(equity_curve) > WarmUp + 1
    /\ equity_curve[Len(equity_curve)].time = sub_candle.t
    /\ InZone(sub_candle.o, zones.supply)
    /\ ~InZone(sub_candle.o, zones.demand)
    /\ Len(trades) > 0

\* C9: profit-factor sentinel.  For a trade log that is empty or holds only
\* trades with pnl > 0 each backtester reports the string "Infinity"; for a
\* log with a gross loss it reports gross profit divided by the absolute gross
\* loss.
C9_InfinitySentinel ==
    mout # None =>
        /\ (\A k \in 1..Len(mlog) : mlog[k].pnl > 0) =>
              /\ mout.backtester = Infinity
              /\ mout.main = Infinity
              /\ mout.spot = Infinity
        /\ TotalLoss(mlog) > 0 =>
              LET ratio == Num(FDiv(TotalProfit(mlog, Len(mlog)) * 100,
                                    TotalLoss(mlog)))
              IN /\ mout.backtester = ratio
                 /\ mout.main = ratio
                 /\ mout.spot = ratio

\* the empty log summarised: "Infinity" from backtester.py and main.py, the
\* number 0 from backtester_spot.py
C9_Witness ==
    /\ mout # None
    /\ mlog = <<>>
    /\ mout.backtester = Infinity
    /\ mout.main = Infinity
    /\ mout.spot = Num(0)

\* C10: quantity conservation.  The three take-profit quantities of the open
\* position add up to its initial quantity, its remaining quantity plus the
\* quantities of the levels already hit equals the initial quantity, and a
\* reversal closes the initial quantity less the quantities of the levels hit.
C10_QuantityConservation ==
    /\ [](open_position # None =>
            LET p == open_position
            IN /\ p.tp1_qty + p.tp2_qty + p.tp3_qty = hist.qty0
               /\ p.quantity + (IF p.tp1_hit THEN p.tp1_qty ELSE 0)
                             + (IF p.tp2_hit THEN p.tp2_qty ELSE 0)
                             + (IF p.tp3_hit THEN p.tp3_qty ELSE 0) = hist.qty0)
    /\ [][(pc = "signal" /\ pc' = "entry"
           /\ Len(trades') = Len(trades) + 1) =>
             LET p == open_position
                 t == trades'[Len(trades')]
                 hit == (IF p.tp1_hit THEN p.tp1_qty ELSE 0)
                        + (IF p.tp2_hit THEN p.tp2_qty ELSE 0)
             IN t.pnl = (IF p.direction = "long"
                         THEN sub_candle.o - p.entry_price
                         ELSE p.entry_price - sub_candle.o)
                        * (hist.qty0 - hit)]_vars

\* a position has hit TP1, then TP2, and has then been reversed at an open
\* price different from its entry price
C10_Witness ==
    /\ pc = "entry"
    /\ Len(trades) >= 3
    /\ trades[Len(trades) - 2].exit_reason = "TP1"
    /\ trades[Len(trades) - 1].exit_reason = "TP2"
    /\ trades[Len(trades)].exit_reason = "Reversal"
    /\ trades[Len(trades)].pnl # 0
    /\ hist.owner[Len(trades) - 2] = hist.owner[Len(trades)]
    /\ hist.owner[Len(trades) - 1] = hist.owner[Len(trades)]

\* C11: liquidation guard in the replay loop.  Every open position of a
\* futures run with leverage > 1 has its stop-loss strictly inside its
\* liquidation price: above it for a long, below it for a short.
C11_StopInsideLiquidation ==
    (/\ pc \in {"loop", "exit", "signal", "entry", "returned"}
     /\ cfg.mode = "futures"
     /\ cfg.leverage > 1
     /\ open_position # None) =>
        LET p == open_position
            liq == calculate_liquidation_price(p.entry_price, cfg.leverage,
                                               p.direction)
        IN IF p.direction = "long" THEN p.sl > liq.price
           ELSE p.sl < liq.price

\* the replay loop of backtester.py has opened a long at leverage 20 whose
\* stop-loss lies below its liquidation price
C11_Witness ==
    /\ pc = "loop"
    /\ cfg.mode = "futures"
    /\ cfg.leverage = 20
    /\ open_position # None
    /\ open_position.direction = "long"
    /\ hist.entry_idx = idx - 1
    /\ open_position.sl
         < calculate_liquidation_price(open_position.entry_price, cfg.leverage,
                                       "long").price

\* C15: dual-resolution stepping.  Every sub-candle goes through the exit
\* evaluation, which logs a trade whenever the stop-loss or an unfilled
\* take-profit of the open position is reached and logs SL and TP trades only;
\* on a sub-candle whose timestamp is not the open of a main-interval candle
\* the signal step changes neither the zones nor the position nor the log;
\* every Reversal trade and every entry is on a main-interval open.
C15_DualResolution ==
    /\ [][/\ sub_candle' # sub_candle => (pc = "loop" /\ pc' = "exit")
          /\ pc = "exit" =>
               /\ pc' = "signal"
               /\ zones' = zones
               /\ \A k \in (Len(trades) + 1)..Len(trades') :
                     trades'[k].exit_reason \in {"SL", "TP1", "TP2", "TP3"}
               /\ (/\ open_position # None
                   /\ \/ SlHit(open_position, sub_candle)
                      \/ \E i \in 1..3 : /\ ~TpFlag(open_position, i)
                                         /\ TpHit(open_position, sub_candle, i))
                     => Len(trades') > Len(trades)
          /\ (/\ pc = "signal"
              /\ \/ (sub_candle.t - cfg.start_ts) % SubPerMain # 0
                 \/ (sub_candle.t - cfg.start_ts) \div SubPerMain
                      >= fetched.n_main) =>
               /\ pc' = "loop"
               /\ zones' = zones
               /\ open_position' = open_position
               /\ trades' = trades]_vars
    /\ [](pc \in {"loop", "exit", "signal", "entry", "returned"} =>
            /\ \A k \in 1..Len(trades) :
                  trades[k].exit_reason = "Reversal" =>
                     /\ (trades[k].exit_time - cfg.start_ts) % SubPerMain = 0
                     /\ (trades[k].exit_time - cfg.start_ts) \div SubPerMain
                          < fetched.n_main
            /\ open_position # None =>
                  /\ hist.entry_idx % SubPerMain = 0
                  /\ hist.entry_idx \div SubPerMain < fetched.n_main)

\* a take-profit has been logged on a sub-candle that is not a main-interval
\* open
C15_Witness ==
    /\ pc = "signal"
    /\ (sub_candle.t - cfg.start_ts) % SubPerMain # 0
    /\ open_position # None
    /\ Len(trades) > 0
    /\ trades[Len(trades)].exit_time = sub_candle.t
    /\ trades[Len(trades)].exit_reason = "TP1"

\* C16: equity-curve sampling.  The curve starts with the seed point
\* (start_ts, starting_equity); a step whose sub-candle is a main-interval
\* open appends exactly one sample, holding the sub-candle's time and the
\* equity at the end of the step; no other step appends; so the curve has one
\* sample per main-interval open replayed, after the seed.
C16_EquityCurveSampling ==
    /\ [][/\ (pc \in {"signal", "entry"} /\ pc' = "loop") =>
               IF /\ (sub_candle.t - cfg.start_ts) % SubPerMain = 0
                  /\ (sub_candle.t - cfg.start_ts) \div SubPerMain
                       < fetched.n_main
               THEN equity_curve' =
                      Append(equity_curve,
                             [time |-> sub_candle.t, equity |-> equity'])
               ELSE equity_curve' = equity_curve
          /\ (pc \in {"loop", "exit"} \/ pc' = "entry") =>
               equity_curve' = equity_curve]_vars
    /\ [](pc \in {"loop", "exit", "signal", "entry", "returned"} =>
            /\ equity_curve[1] = [time |-> cfg.start_ts,
                                  equity |-> cfg.starting_equity]
            /\ Len(equity_curve) =
                 1 + Cardinality({k \in 0..(idx - 1) :
                                     /\ k % SubPerMain = 0
                                     /\ k \div SubPerMain < fetched.n_main}))

\* a step with a reversal has ended: its sample holds the equity after the
\* reversal, which differs from the sample before
C16_Witness ==
    /\ pc = "loop"
    /\ Len(trades) > 0
    /\ trades[Len(trades)].exit_reason = "Reversal"
    /\ trades[Len(trades)].exit_time = sub_candle.t
    /\ Len(equity_curve) > 2
    /\ equity_curve[Len(equity_curve)].time = sub_candle.t
    /\ equity_curve[Len(equity_curve)].equity = equity
    /\ equity_curve[Len(equity_curve) - 1].equity # equity

\* C17: capital injection scheduler.  With dca_frequency weekly and
\* dca_amount > 0 a sub-candle brings an injection exactly when its timestamp
\* is at least 7 days after the last injection time (start_ts at first); the
\* injection adds dca_amount once to equity and to total_dca_added and sets
\* the last injection time to the timestamp; no other step changes the
\* accumulator; consecutive injections are at least 7 days apart and
\* total_dca_added is the number of injections times dca_amount; with
\* dca_frequency none or dca_amount <= 0 there is no injection.
C17_WeeklyInjection ==
    /\ [][/\ (/\ pc = "loop" /\ pc' = "exit"
              /\ cfg.dca_frequency = "weekly" /\ cfg.dca_amount > 0) =>
               IF sub_candle'.t - last_dca_time >= 7
               THEN /\ equity' = equity + cfg.dca_amount
                    /\ total_dca_added' = total_dca_added + cfg.dca_amount
                    /\ last_dca_time' = sub_candle'.t
               ELSE /\ equity' = equity
                    /\ total_dca_added' = total_dca_added
                    /\ last_dca_time' = last_dca_time
          /\ (pc \in {"exit", "signal", "entry"} \/ pc' = "returned") =>
               /\ total_dca_added' = total_dca_added
               /\ last_dca_time' = last_dca_time]_vars
    /\ [](pc \in {"loop", "exit", "signal", "entry", "returned"} =>
            LET inj == hist.injections
            IN /\ total_dca_added = Len(inj) * cfg.dca_amount
               /\ cfg.dca_frequency = "weekly" =>
                     \A k \in 1..Len(inj) :
                        inj[k] - (IF k = 1 THEN cfg.start_ts ELSE inj[k - 1])
                          >= 7
               /\ (cfg.dca_frequency = "none" \/ cfg.dca_amount <= 0) =>
                     /\ inj = <<>>
                     /\ total_dca_added = 0
                     /\ last_dca_time = cfg.start_ts)

\* a weekly run has received its second injection on this sub-candle
C17_Witness ==
    /\ pc = "exit"
    /\ cfg.dca_frequency = "weekly"
    /\ cfg.dca_amount > 0
    /\ Len(hist.injections) = 2
    /\ hist.injections[2] = sub_candle.t
    /\ last_dca_time = sub_candle.t
    /\ total_dca_added = 2 * cfg.dca_amount

\* C19: insufficient data.  With fewer than 50 main-interval candles or no
\* sub-interval candle the call raises before any simulation state exists: no
\* replay step is taken before or after, the trade log and the equity curve
\* are empty, and handle_backtest answers with status 400 and an error
\* instead of a result record; the replay starts only with enough data.
C19_InsufficientData ==
    /\ [][/\ (pc = "fetch"
              /\ (fetched.n_main < 50 \/ fetched.n_sub = 0)) =>
               /\ pc' = "raised"
               /\ UNCHANGED <<idx, sub_candle, equity, open_position, trades,
                              equity_curve, total_dca_added>>
          /\ pc # "raised"]_vars
    /\ [](pc = "raised" =>
            /\ fetched.n_main < 50 \/ fetched.n_sub = 0
            /\ idx = 0 /\ trades = <<>> /\ equity_curve = <<>>
            /\ open_position = None
            /\ handle_backtest.status = 400
            /\ DOMAIN handle_backtest.body = {"error"}
            /\ handle_backtest.body.error \in
                 {"Not enough historical data for the main interval.",
                  "Not enough historical data for the sub-interval."})
    /\ [](pc \in {"loop", "exit", "signal", "entry", "returned"} =>
            (fetched.n_main >= 50 /\ fetched.n_sub > 0))

\* the call has raised on an empty sub-interval sequence with enough main
\* candles
C19_Witness ==
    /\ pc = "raised"
    /\ fetched.n_main >= 50
    /\ fetched.n_sub = 0
    /\ handle_backtest.status = 400

\* C20: no failure after the start of the replay.  A call whose replay loop
\* has started returns: it reaches the return with a record of metrics, trades
\* and equity_curve, answered with status 200; for an empty trade log win_rate
\* and avg_trade_pnl are 0.
C20_NoFailure ==
    /\ (pc = "loop") ~> (pc = "returned")
    /\ [](pc = "returned" =>
            /\ handle_backtest.status = 200
            /\ DOMAIN handle_backtest.body = {"metrics", "trades", "equity_curve"}
            /\ DOMAIN result.metrics =
                 {"net_profit", "total_trades", "win_rate", "profit_factor",
                  "max_drawdown", "avg_trade_pnl"}
            /\ trades = <<>> =>
                  /\ result.metrics.win_rate = 0
                  /\ result.metrics.avg_trade_pnl = 0
                  /\ result.metrics.total_trades = 0)

\* a run has returned with an empty trade log and a position still open, so
\* with a net profit that is not 0
C20_Witness ==
    /\ pc = "returned"
    /\ trades = <<>>
    /\ open_position # None
    /\ result.metrics.net_profit # 0
    /\ result.metrics.avg_trade_pnl = 0

\* C21: mark to market at the end.  The return step adds the pnl of a position
\* still open, taken at the close of the last sub-candle, to the final equity
\* only: the trade log, the equity curve, the running equity and the position
\* are left as they are, and total_trades is the length of the trade log.
C21_MarkToMarket ==
    [][(pc = "loop" /\ pc' = "returned") =>
         /\ UNCHANGED <<trades, equity_curve, equity, open_position,
                        total_dca_added>>
         /\ sub_candle.t = cfg.start_ts + fetched.n_sub - 1
         /\ result'.final_equity =
              equity + (IF open_position = None THEN 0
                        ELSE IF open_position.direction = "long"
                        THEN (sub_candle.c - open_position.entry_price)
                             * open_position.quantity
                        ELSE (open_position.entry_price - sub_candle.c)
                             * open_position.quantity)
         /\ result'.metrics.net_profit =
              result'.final_equity - cfg.starting_equity - total_dca_added
         /\ result'.metrics.total_trades = Len(trades)
         /\ handle_backtest'.body.trades = trades
         /\ handle_backtest'.body.equity_curve = equity_curve]_vars

\* a run has returned with trades in the log and an open position whose
\* pnl at the last close is not 0
C21_Witness ==
    /\ pc = "returned"
    /\ open_position # None
    /\ trades # <<>>
    /\ result.final_equity # equity
    /\ result.metrics.total_trades = Len(trades)

C23_EntryConstruction ==
    [][(pc = "entry" /\ open_position = None) =>
        LET open == sub_candle.o
            inDemand == /\ zones.demand # None
                        /\ zones.demand.low <= open /\ open <= zones.demand.high
            inSupply == /\ zones.supply # None
                        /\ zones.supply.low <= open /\ open <= zones.supply.high
            sl == IF inDemand THEN FDiv(zones.demand.low * 999, 1000)
                  ELSE FDiv(zones.supply.high * 1001, 1000)
            R == IF open >= sl THEN open - sl ELSE sl - open
            q == FDiv(FDiv(equity * cfg.risk_percentage, 100), R)
            sgn == IF inDemand THEN 1 ELSE -1
            p == open_position'
        IN /\ ~(inDemand /\ inSupply)
           /\ (cfg.mode = "futures" /\ (inDemand \/ inSupply)
               /\ R > 0 /\ equity > 0 /\ q > 0) =>
                 (p # None /\ p.quantity = q)
           /\ (inDemand \/ inSupply) /\ p # None =>
                 /\ p.direction = (IF inDemand THEN "long" ELSE "short")
                 /\ p.entry_price = open
                 /\ p.sl = sl
                 /\ p.tp1 = open + sgn * R
                 /\ p.tp2 = open + sgn * 2 * R
                 /\ p.tp3 = open + sgn * 3 * R
                 /\ inSupply => cfg.mode = "futures"
           /\ ~(inDemand \/ inSupply) => p = None]_vars

\* a futures short has just been opened from a supply zone with its stop
\* above the zone and its third take-profit 3R below the entry
C23_Witness ==
    /\ pc = "loop"
    /\ open_position # None
    /\ hist.entry_idx = idx - 1
    /\ cfg.mode = "futures"
    /\ open_position.direction = "short"
    /\ zones.supply # None
    /\ open_position.sl = FDiv(zones.supply.high * 1001, 1000)
    /\ open_position.sl > zones.supply.high
    /\ open_position.tp3 =
         open_position.entry_price
           - 3 * (open_position.sl - open_position.entry_price)

\* C24: first take-profit.  For an open position none of whose take-profits
\* has been taken, a sub-candle that reaches TP1 but not TP2 and does not
\* reach the stop-loss appends exactly one trade record, with exit_reason TP1,
\* and leaves the position open with 67% of its initial quantity (the initial
\* quantity less the 33% closed); for a long the candle's high and low are
\* tested, for a short its low and high.
C24_FirstTakeProfit ==
    [][(/\ pc = "exit"
        /\ open_position # None
        /\ ~open_position.tp1_hit /\ ~open_position.tp2_hit
        /\ ~open_position.tp3_hit
        /\ IF open_position.direction = "long"
           THEN /\ sub_candle.l > open_position.sl
                /\ sub_candle.h >= open_position.tp1
                /\ sub_candle.h < open_position.tp2
           ELSE /\ sub_candle.h < open_position.sl
                /\ sub_candle.l <= open_position.tp1
                /\ sub_candle.l > open_position.tp2) =>
         /\ Len(trades') = Len(trades) + 1
         /\ SubSeq(trades', 1, Len(trades)) = trades
         /\ trades'[Len(trades')].exit_reason = "TP1"
         /\ trades'[Len(trades')].exit_time = sub_candle.t
         /\ open_position' # None
         /\ open_position'.tp1_hit /\ ~open_position'.tp2_hit
         /\ open_position.quantity = hist.qty0
         /\ 67 * hist.qty0 <= 100 * open_position'.quantity
         /\ 100 * open_position'.quantity < 67 * hist.qty0 + 100]_vars

\* a long has just taken its first take-profit only and 67% of its initial
\* quantity stays open
C24_Witness ==
    /\ pc = "signal"
    /\ open_position # None
    /\ open_position.direction = "long"
    /\ open_position.tp1_hit /\ ~open_position.tp2_hit
    /\ trades # <<>>
    /\ trades[Len(trades)].exit_reason = "TP1"
    /\ trades[Len(trades)].exit_time = sub_candle.t
    /\ sub_candle.h < open_position.tp2
    /\ open_position.quantity = hist.qty0 - FDiv(hist.qty0 * 33, 100)

\* C26: equity decreases only by realized losses.  Whenever the running equity
\* after a step of the replay is lower than before it, the step appended a
\* trade record with a negative pnl; a step that appends no trade (an entry,
\* a DCA injection, a candle without exit) never lowers equity, and a deposit
\* raises it by the amount added to total_dca_added.
C26_EquityMonotone ==
    [][(pc \in {"loop", "exit", "signal", "entry"}) =>
         /\ equity' < equity =>
              /\ Len(trades') > Len(trades)
              /\ \E k \in (Len(trades) + 1)..Len(trades') : trades'[k].pnl < 0
         /\ trades' = trades =>
              /\ equity' >= equity
              /\ equity' - equity = total_dca_added' - total_dca_added
         /\ pc = "entry" => equity' = equity]_vars

\* a stop-loss has just closed a position with a negative pnl and equity is
\* below the starting equity of a run without deposits
C26_Witness ==
    /\ pc = "signal"
    /\ open_position = None
    /\ trades # <<>>
    /\ trades[Len(trades)].exit_reason = "SL"
    /\ trades[Len(trades)].exit_time = sub_candle.t
    /\ trades[Len(trades)].pnl < 0
    /\ cfg.dca_frequency = "none"
    /\ equity < cfg.starting_equity

\* C31: take-profit levels are never skipped.  An open position has
\* tp3_hit => tp2_hit and tp2_hit => tp1_hit, after every iteration of the
\* take-profit loop as well as between sub-candles, and between sub-candles it
\* has none, one or two levels filled: a position with three is none.
C31_LevelsInOrder ==
    LET InOrder(p) == (p.tp3_hit => p.tp2_hit) /\ (p.tp2_hit => p.tp1_hit)
    IN /\ open_position # None =>
             InOrder(open_position) /\ ~open_position.tp3_hit
       /\ (pc = "exit" /\ open_position # None) =>
             \A s0 \in {StopLoss([pos |-> open_position, equity |-> equity,
                                  trades |-> trades], sub_candle)} :
                s0.pos # None =>
                   \A s1 \in {TakeProfit(s0, sub_candle, 1)} :
                   \A s2 \in {TakeProfit(s1, sub_candle, 2)} :
                   \A s3 \in {TakeProfit(s2, sub_candle, 3)} :
                      /\ InOrder(s1.pos) /\ InOrder(s2.pos) /\ InOrder(s3.pos)
                      /\ s3.pos.tp3_hit => DropIfDone(s3).pos = None

\* a position with two levels filled on an earlier sub-candle is open while
\* the next sub-candle is read
C31_Witness ==
    /\ pc = "exit"
    /\ open_position # None
    /\ open_position.tp1_hit
    /\ open_position.tp2_hit
    /\ ~open_position.tp3_hit
    /\ Len(trades) >= 2
    /\ trades[Len(trades)].exit_reason = "TP2"
    /\ trades[Len(trades)].exit_time < sub_candle.t

\* C32: per-position exit sequence.  The trade records of one position are
\* TP1 or nothing, then TP2 or nothing, then at most one terminal record, an
\* SL, a TP3 or a Reversal: at most 3 records, no record after the terminal
\* one, exactly one terminal record once the position is closed and none
\* while it is open.  Every exit_reason of the log is one of SL, TP1, TP2,
\* TP3, Reversal, and the log only grows at its end.
C32_ExitSequence ==
    /\ [][SubSeq(trades', 1, Len(trades)) = trades]_vars
    /\ [](LET Terminal(k) ==
                  trades[k].exit_reason \in {"SL", "TP3", "Reversal"}
              Of(s) == {k \in 1..Len(trades) : hist.owner[k] = s}
          IN /\ Len(hist.owner) = Len(trades)
             /\ \A k \in 1..Len(trades) :
                   /\ hist.owner[k] \in 1..hist.serial
                   /\ trades[k].exit_reason
                         \in {"SL", "TP1", "TP2", "TP3", "Reversal"}
             /\ \A s \in 1..hist.serial :
                   /\ Cardinality(Of(s)) <= 3
                   /\ \A j, k \in Of(s) :
                         /\ (Terminal(j) /\ j # k) => k < j
                         /\ (j < k /\ ~Terminal(k)) =>
                               /\ trades[j].exit_reason = "TP1"
                               /\ trades[k].exit_reason = "TP2"
                   /\ (s < hist.serial \/ open_position = None) =>
                         \E k \in Of(s) : Terminal(k)
                   /\ (s = hist.serial /\ open_position # None) =>
                         \A k \in Of(s) : ~Terminal(k))

\* the log holds the three records TP1, TP2, Reversal of one position, the
\* Reversal on a later sub-candle than the TP2, and a record of another
\* position
C32_Witness ==
    /\ Len(trades) >= 4
    /\ \E k \in 1..(Len(trades) - 2) :
          /\ trades[k].exit_reason = "TP1"
          /\ trades[k + 1].exit_reason = "TP2"
          /\ trades[k + 2].exit_reason = "Reversal"
          /\ trades[k + 2].exit_time > trades[k + 1].exit_time
          /\ hist.owner[k] = hist.owner[k + 2]
    /\ \E j, k \in 1..Len(trades) : hist.owner[j] # hist.owner[k]

\* C36: warm-up gating.  The detector is called, a position is opened and a
\* Reversal is recorded only on a sub-candle aligned with a main candle of
\* index 50 or more; until then the position is none and the trade log is
\* empty; and a call with exactly 50 main candles is accepted and never has a
\* position or a trade.
C36_WarmUpGating ==
    /\ [][(\/ main_tail' # main_tail
           \/ zones' # zones
           \/ open_position = None /\ open_position' # None
           \/ /\ Len(trades') > Len(trades)
              /\ trades'[Len(trades')].exit_reason = "Reversal") =>
             /\ Aligned
             /\ current_main_idx >= WarmUp
             /\ sub_candle.t = current_ts]_vars
    /\ []((open_position # None \/ trades # <<>>) =>
             idx >= WarmUp * SubPerMain)
    /\ []((fetched # None /\ fetched.n_main = WarmUp) =>
             /\ pc # "raised"
             /\ open_position = None
             /\ trades = <<>>
             /\ zones = NoZones
             /\ pc = "returned" => result.metrics.total_trades = 0)

\* a call with exactly 50 main candles has replayed every sub-candle, those
\* after the last main candle included, and has returned without a trade
C36_Witness ==
    /\ pc = "returned"
    /\ fetched.n_main = WarmUp
    /\ idx = fetched.n_sub
    /\ idx > WarmUp * SubPerMain
    /\ trades = <<>>
    /\ Len(equity_curve) = WarmUp + 1

-----------------------------------------------------------------------------
(* The Liquidation Guard of main.py:570-576 applied to bounded entries *)

\* largest leverage given to the guard
MaxLeverage == 250

\* leverage values: none, unleveraged, common ones and very high ones
Leverages == {0, 1, 2, 10, 20, 125, 166, 167, 200, MaxLeverage}

\* entry price, zone and direction of an entry; prices in ticks of 0.1
GuardArgs ==
    { [entry_price |-> e, leverage |-> lv, direction |-> dr, zone |-> z] :
        e \in {110000, 130000}, lv \in Leverages,
        dr \in {"long", "short", "flat"},
        z \in { [low |-> 100000, high |-> 130000],
                [low |-> 109900, high |-> 130100] } }

\* the replay variables at rest
IdleReplay ==
    /\ cfg = None
    /\ fetched = None
    /\ main_tail = <<>>
    /\ idx = 0
    /\ sub_candle = NoCandle
    /\ zones = NoZones
    /\ equity = 0
    /\ total_dca_added = 0
    /\ last_dca_time = 0
    /\ open_position = None
    /\ trades = <<>>
    /\ equity_curve = <<>>
    /\ result = None
    /\ hist = [serial |-> 0, qty0 |-> 0, equity0 |-> 0, entry_idx |-> 0, owner |-> <<>>,
                injections |-> <<>>]

GuardInit ==
    /\ pc = "guard"
    /\ IdleReplay
    /\ IdleMetrics
    /\ IdleGuard
    /\ IdleDrawdown
    /\ IdleSuspended
    /\ IdleDetector
    /\ IdleLive

\* main.py:565-567: an entry signal with its price, zone and direction
ChooseEntry ==
    /\ pc = "guard"
    /\ garg = None
    /\ garg' \in GuardArgs
    /\ UNCHANGED <<pc, cfg, fetched, main_tail, idx, sub_candle, zones, equity,
                   total_dca_added, last_dca_time, open_position, trades,
                   equity_curve, result, hist, mlog, mout, gout, dcurve, dout, suspended,
                   zcandles, zout, live_vars>>

\* main.py:570-576: the stop, the liquidation price, the clamp (applied once
\* and once more) and risk_per_unit
Guard ==
    /\ pc = "guard"
    /\ garg # None
    /\ gout = None
    /\ LET sl0 == StopFor(garg.direction, garg.zone)
           liquidation_price ==
               calculate_liquidation_price(garg.entry_price, garg.leverage,
                                           garg.direction)
           sl == LiquidationClamp(sl0, liquidation_price, garg.direction)
       IN gout' = [liquidation_price |-> liquidation_price,
                   sl |-> sl,
                   sl_again |-> LiquidationClamp(sl, liquidation_price,
                                                 garg.direction),
                   risk_per_unit |-> Abs(garg.entry_price - sl)]
    /\ UNCHANGED <<pc, cfg, fetched, main_tail, idx, sub_candle, zones, equity,
                   total_dca_added, last_dca_time, open_position, trades,
                   equity_curve, result, hist, mlog, mout, garg, dcurve, dout, suspended,
                   zcandles, zout, live_vars>>

GuardNext ==
    \/ ChooseEntry
    \/ Guard

GuardSpec == GuardInit /\ [][GuardNext]_vars

-----------------------------------------------------------------------------
(* Properties of the Liquidation Guard *)

\* C12: clamp idempotence.  A stop-loss already strictly inside the
\* liquidation price (above it for a long, below it for a short) is left
\* unchanged by the clamp, and the clamp applied to a clamped stop-loss
\* leaves it unchanged.
C12_ClampIdempotent ==
    (gout # None /\ gout.liquidation_price # None) =>
        LET sl0 == StopFor(garg.direction, garg.zone)
            liq == gout.liquidation_price.price
        IN /\ (garg.direction = "long" /\ sl0 > liq) => gout.sl = sl0
           /\ (garg.direction = "short" /\ sl0 < liq) => gout.sl = sl0
           /\ gout.sl_again = gout.sl

\* the guard has moved the stop-loss of a long at leverage 20 and the second
\* application has found nothing to move
C12_Witness ==
    /\ gout # None
    /\ garg.leverage = 20
    /\ garg.direction = "long"
    /\ gout.sl # StopFor(garg.direction, garg.zone)
    /\ gout.sl_again = gout.sl

\* C13: the guard only reduces the stop distance.  For every entry with
\* integer leverage > 1 the clamped stop-loss is on the loss side of the entry
\* (below it for a long, above it for a short) and its distance to the entry
\* is positive and not larger than the distance of the unclamped stop-loss.
C13_GuardOnlyTightens ==
    (/\ gout # None
     /\ garg.leverage > 1
     /\ garg.direction \in {"long", "short"}) =>
        LET sl0 == StopFor(garg.direction, garg.zone)
        IN /\ garg.direction = "long" => gout.sl < garg.entry_price
           /\ garg.direction = "short" => gout.sl > garg.entry_price
           /\ gout.risk_per_unit > 0
           /\ gout.risk_per_unit <= Abs(garg.entry_price - sl0)

\* the guard has put the stop-loss of a long at leverage 200 above the entry
\* price
C13_Witness ==
    /\ gout # None
    /\ garg.leverage = 200
    /\ garg.direction = "long"
    /\ gout.sl > garg.entry_price
    /\ gout.risk_per_unit > 0

\* C14: calculate_liquidation_price is none for leverage <= 1 and for a
\* direction other than long and short; for leverage > 1 it is
\* entry * (1 - (1/leverage - 0.005)) for a long and
\* entry * (1 + (1/leverage - 0.005)) for a short, that is, the distance to
\* the entry times 200 * leverage is entry * (200 - leverage), to the grid.
C14_LiquidationPrice ==
    gout # None =>
        LET lp == gout.liquidation_price
            e == garg.entry_price
            lv == garg.leverage
        IN /\ lv <= 1 => lp = None
           /\ garg.direction \notin {"long", "short"} => lp = None
           /\ (lv > 1 /\ garg.direction = "long") =>
                 /\ lp # None
                 /\ Abs((e - lp.price) * 200 * lv - e * (200 - lv)) < 200 * lv
           /\ (lv > 1 /\ garg.direction = "short") =>
                 /\ lp # None
                 /\ Abs((lp.price - e) * 200 * lv - e * (200 - lv)) < 200 * lv

\* the liquidation price of a short at leverage 10 is above the entry price
C14_Witness ==
    /\ gout # None
    /\ garg.leverage = 10
    /\ garg.direction = "short"
    /\ gout.liquidation_price # None
    /\ gout.liquidation_price.price > garg.entry_price

-----------------------------------------------------------------------------
(* The drawdown loop of backtester.py:813-817 applied to bounded curves *)

\* longest equity curve given to the drawdown loop, seed point included
MaxCurve == 4

\* equity values of the points: a debt, nothing, and three positive amounts
EquityValues == {-50, 0, 100, 150, 200}

DrawdownInit ==
    /\ pc = "drawdown"
    /\ IdleReplay
    /\ IdleMetrics
    /\ IdleGuard
    /\ IdleDrawdown
    /\ IdleSuspended
    /\ IdleDetector
    /\ IdleLive

\* equity_curve.append(...): the seed point first, then the samples
AddPoint ==
    /\ pc = "drawdown"
    /\ dout = None
    /\ Len(dcurve) < MaxCurve
    /\ \E v \in EquityValues :
          dcurve' = Append(dcurve, [time |-> Len(dcurve), equity |-> v])
    /\ UNCHANGED <<pc, cfg, fetched, main_tail, idx, sub_candle, zones, equity,
                   total_dca_added, last_dca_time, open_position, trades,
                   equity_curve, result, hist, mlog, mout, garg, gout, dout, suspended,
                   zcandles, zout, live_vars>>

\* backtester.py:813-817 and :825: max_drawdown of the curve, the peak
\* starting at starting_equity, the equity of the seed point
Drawdown ==
    /\ pc = "drawdown"
    /\ dcurve # <<>>
    /\ dout = None
    /\ dout' = [max_drawdown |-> MaxDd(dcurve, 1, dcurve[1].equity, 0)]
    /\ UNCHANGED <<pc, cfg, fetched, main_tail, idx, sub_candle, zones, equity,
                   total_dca_added, last_dca_time, open_position, trades,
                   equity_curve, result, hist, mlog, mout, garg, gout, dcurve, suspended,
                   zcandles, zout, live_vars>>

DrawdownNext ==
    \/ AddPoint
    \/ Drawdown

DrawdownSpec == DrawdownInit /\ [][DrawdownNext]_vars

\* C18: max_drawdown.  For a curve that starts with a positive equity,
\* max_drawdown is the maximum over all prefixes of
\* 100 * (running peak - value) / running peak, the running peak being the
\* largest equity of the prefix; for a strictly increasing curve it is 0.
C18_MaxDrawdown ==
    (dout # None /\ dcurve[1].equity > 0) =>
        LET n == Len(dcurve)
            Peak(k) == CHOOSE v \in {dcurve[j].equity : j \in 1..k} :
                          \A j \in 1..k : dcurve[j].equity <= v
            Dd(k) == FDiv((Peak(k) - dcurve[k].equity) * 100, Peak(k))
        IN /\ \E k \in 1..n : dout.max_drawdown = Dd(k)
           /\ \A k \in 1..n : dout.max_drawdown >= Dd(k)
           /\ (\A k \in 1..(n - 1) :
                  dcurve[k].equity < dcurve[k + 1].equity) =>
                 dout.max_drawdown = 0

\* a curve that rises to a new peak and then falls: the drawdown is measured
\* from the new peak, 200 to 100, not from the seed
C18_Witness ==
    /\ dout # None
    /\ Len(dcurve) = 3
    /\ dcurve[1].equity = 100
    /\ dcurve[2].equity = 200
    /\ dcurve[3].equity = 100
    /\ dout.max_drawdown = 50

-----------------------------------------------------------------------------
(* The entry check of backtester.py:756-793 on bounded, also degenerate,    *)
(* arguments: the replay is put at the entry check of the first main candle *)
(* after the warm-up and the action Entry is taken.                         *)

\* parameters of the call, with a risk percentage of 0 and below 0
EntryConfigs ==
    { [mode |-> m, leverage |-> (IF m = "spot" THEN 1 ELSE 10),
       starting_equity |-> 100000000, risk_percentage |-> r,
       dca_frequency |-> "none", dca_amount |-> 0, start_ts |-> 0] :
      m \in {"futures", "spot"}, r \in {-5, 0, 5} }

\* the running equity at the entry check
EntryEquities == {-5000000, 0, 100000000}

\* sub_candle['o'] at the entry check
EntryOpens == {0, 10500, 13500}

\* the zones of the detector at the entry check, with zones at price 0
EntryZones ==
    { [supply |-> s, demand |-> d] :
      s \in {None, [high |-> 14000, low |-> 13000], [high |-> 0, low |-> 0]},
      d \in {None, [high |-> 11000, low |-> 10000], [high |-> 0, low |-> 0]} }

EntryCheckInit ==
    /\ pc = "entrycheck"
    /\ IdleReplay
    /\ IdleMetrics
    /\ IdleGuard
    /\ IdleDrawdown
    /\ IdleSuspended
    /\ IdleDetector
    /\ IdleLive

\* backtester.py:739-756: the replay arrives at the entry check with no open
\* position
ReachEntry ==
    /\ pc = "entrycheck"
    /\ pc' = "entry"
    /\ cfg' \in EntryConfigs
    /\ fetched' = [n_main |-> FullMain, n_sub |-> FullSub]
    /\ idx' = WarmUp * SubPerMain
    /\ \E o \in EntryOpens : sub_candle' = Candle(WarmUp * SubPerMain, o, o, o, o)
    /\ zones' \in EntryZones
    /\ equity' \in EntryEquities
    /\ total_dca_added' \in {0, 1000000}
    /\ equity_curve' = <<[time |-> 0, equity |-> 100000000]>>
    /\ UNCHANGED <<main_tail, last_dca_time, open_position, trades, result,
                   hist, mlog, mout, garg, gout, dcurve, dout, suspended,
                   zcandles, zout, live_vars>>

EntryCheckNext ==
    \/ ReachEntry
    \/ Entry

EntryCheckSpec == EntryCheckInit /\ [][EntryCheckNext]_vars

\* C25: degenerate entries.  At the entry check with no open position and
\* the open inside a zone, if the risk distance |entry - stop| is 0 or the
\* quantity computed from equity, risk percentage and distance (or entry
\* price, in spot mode) is 0 or negative, no position is opened, no trade is
\* appended, and equity and total_dca_added are unchanged; the step ends
\* normally with the equity sample.
C25_DegenerateEntry ==
    [][(pc = "entry" /\ open_position = None) =>
        LET open == sub_candle.o
            inDemand == /\ zones.demand # None
                        /\ zones.demand.low <= open /\ open <= zones.demand.high
            inSupply == /\ ~inDemand /\ cfg.mode = "futures"
                        /\ zones.supply # None
                        /\ zones.supply.low <= open /\ open <= zones.supply.high
            sl == IF inDemand THEN FDiv(zones.demand.low * 999, 1000)
                  ELSE FDiv(zones.supply.high * 1001, 1000)
            R == IF open >= sl THEN open - sl ELSE sl - open
            amount == FDiv(equity * cfg.risk_percentage, 100)
            q == IF cfg.mode = "futures" THEN FDiv(amount, R)
                 ELSE FDiv(IF amount > equity THEN equity ELSE amount, open)
        IN ((inDemand \/ inSupply) /\ (R = 0 \/ q <= 0)) =>
              /\ open_position' = None
              /\ trades' = trades
              /\ equity' = equity
              /\ total_dca_added' = total_dca_added
              /\ pc' = "loop"
              /\ Len(equity_curve') = Len(equity_curve) + 1]_vars

\* the entry check has run in futures mode on an open inside the demand
\* zone with positive equity and a risk percentage of 0, and no position
\* exists
C25_Witness ==
    /\ pc = "loop"
    /\ idx = WarmUp * SubPerMain + 1
    /\ cfg.mode = "futures"
    /\ cfg.risk_percentage = 0
    /\ equity > 0
    /\ zones.demand # None
    /\ zones.demand.low = 10000
    /\ sub_candle.o = 10500
    /\ open_position = None
    /\ trades = <<>>
    /\ Len(equity_curve) = 2

-----------------------------------------------------------------------------
(* Two calls of run_backtest_simulation in two threads of the server.  The  *)
(* variables of the replay are the locals of the call that is running; the  *)
(* locals of the other call are kept in suspended, and a switch of threads  *)
(* exchanges the two.  The module has no variable that both calls write.    *)

\* the locals of the running call
Frame ==
    [pc |-> pc, cfg |-> cfg, fetched |-> fetched, main_tail |-> main_tail,
     idx |-> idx, sub_candle |-> sub_candle, zones |-> zones,
     equity |-> equity, total_dca_added |-> total_dca_added,
     last_dca_time |-> last_dca_time, open_position |-> open_position,
     trades |-> trades, equity_curve |-> equity_curve, result |-> result,
     hist |-> hist]

\* the locals of a call with parameters c that has fetched f and not started
NewFrame(c, f) ==
    [pc |-> "fetch", cfg |-> c, fetched |-> f, main_tail |-> <<>>, idx |-> 0,
     sub_candle |-> NoCandle, zones |-> NoZones, equity |-> 0,
     total_dca_added |-> 0, last_dca_time |-> 0, open_position |-> None,
     trades |-> <<>>, equity_curve |-> <<>>, result |-> None,
     hist |-> [serial |-> 0, qty0 |-> 0, equity0 |-> 0, entry_idx |-> 0, owner |-> <<>>,
               injections |-> <<>>]]

\* the parameters of the two requests: a futures call and a spot call with
\* weekly deposits
PairConfigs ==
    <<[mode |-> "futures", leverage |-> 10, starting_equity |-> 100000000,
       risk_percentage |-> 5, dca_frequency |-> "none", dca_amount |-> 0,
       start_ts |-> 0],
      [mode |-> "spot", leverage |-> 1, starting_equity |-> 100000000,
       risk_percentage |-> 5, dca_frequency |-> "weekly",
       dca_amount |-> 1000000, start_ts |-> 0]>>

\* the prices of the sub-interval candles of the symbol of each request; the
\* candles are flat
PairPrices(c) == IF c.mode = "futures" THEN {11000, 13000} ELSE {11000}

\* the futures call is running, the spot call has fetched its arrays (or no
\* sub-interval candle) and waits
PairInit ==
    /\ pc = "fetch"
    /\ cfg = PairConfigs[1]
    /\ fetched = [n_main |-> FullMain, n_sub |-> FullSub]
    /\ main_tail = <<>>
    /\ idx = 0
    /\ sub_candle = NoCandle
    /\ zones = NoZones
    /\ equity = 0
    /\ total_dca_added = 0
    /\ last_dca_time = 0
    /\ open_position = None
    /\ trades = <<>>
    /\ equity_curve = <<>>
    /\ result = None
    /\ hist = [serial |-> 0, qty0 |-> 0, equity0 |-> 0, entry_idx |-> 0, owner |-> <<>>,
                injections |-> <<>>]
    /\ suspended \in {NewFrame(PairConfigs[2], f) :
                        f \in {[n_main |-> FullMain, n_sub |-> FullSub],
                               [n_main |-> FullMain, n_sub |-> 0]}}
    /\ IdleMetrics
    /\ IdleGuard
    /\ IdleDrawdown
    /\ IdleDetector
    /\ IdleLive

\* a switch of threads with the trade log kept in one list of the module
Switch_SharedLog ==
    /\ suspended # None
    /\ pc' = suspended.pc
    /\ cfg' = suspended.cfg
    /\ fetched' = suspended.fetched
    /\ main_tail' = suspended.main_tail
    /\ idx' = suspended.idx
    /\ sub_candle' = suspended.sub_candle
    /\ zones' = suspended.zones
    /\ equity' = suspended.equity
    /\ total_dca_added' = suspended.total_dca_added
    /\ last_dca_time' = suspended.last_dca_time
    /\ open_position' = suspended.open_position
    /\ trades' = trades
    /\ equity_curve' = suspended.equity_curve
    /\ result' = suspended.result
    /\ hist' = suspended.hist
    /\ suspended' = Frame
    /\ UNCHANGED <<mlog, mout, garg, gout, dcurve, dout, zcandles, zout, live_vars>>

\* the interpreter passes control to the other thread
Switch ==
    /\ suspended # None
    /\ pc' = suspended.pc
    /\ cfg' = suspended.cfg
    /\ fetched' = suspended.fetched
    /\ main_tail' = suspended.main_tail
    /\ idx' = suspended.idx
    /\ sub_candle' = suspended.sub_candle
    /\ zones' = suspended.zones
    /\ equity' = suspended.equity
    /\ total_dca_added' = suspended.total_dca_added
    /\ last_dca_time' = suspended.last_dca_time
    /\ open_position' = suspended.open_position
    /\ trades' = suspended.trades
    /\ equity_curve' = suspended.equity_curve
    /\ result' = suspended.result
    /\ hist' = suspended.hist
    /\ suspended' = Frame
    /\ UNCHANGED <<mlog, mout, garg, gout, dcurve, dout, zcandles, zout, live_vars>>

\* the candle read is one of the running call's own arrays
PairSub == sub_candle \in {Candle(current_ts, p, p, p, p) : p \in PairPrices(cfg)}

PairMain ==
    main_tail[Len(main_tail)].c = 12100

PairNext ==
    \/ Reject
    \/ Begin
    \/ NextCandle /\ PairSub'
    \/ ExitEval
    \/ NotAligned
    \/ WarmingUp
    \/ Reversal /\ PairMain'
    \/ Entry
    \/ Finish
    \/ Switch

PairSpec == PairInit /\ [][PairNext]_vars

-----------------------------------------------------------------------------
(* find_supply_demand_zones of backtester.py:374-432 applied to bounded    *)
(* candle histories                                                        *)

\* most candles appended after the quiet start of a history
MaxPattern == 6

\* lengths of the quiet start: with the pattern the history has fewer than,
\* exactly or more than MinCandles candles
QuietLens == {13, 14, 15}

\* the candles of a quiet start: a small rally, or a doji
QuietCandles == {[o |-> 100, h |-> 102, l |-> 99, c |-> 101],
                 [o |-> 100, h |-> 101, l |-> 99, c |-> 100]}

\* the candles of a pattern: a doji above the market, a doji below it, a
\* large rally, a large drop, and a small rally
PatternCandles == {[o |-> 120, h |-> 121, l |-> 119, c |-> 120],
                   [o |-> 80,  h |-> 81,  l |-> 79,  c |-> 80],
                   [o |-> 100, h |-> 111, l |-> 99,  c |-> 110],
                   [o |-> 110, h |-> 111, l |-> 99,  c |-> 100],
                   [o |-> 100, h |-> 102, l |-> 99,  c |-> 101]}

\* the candle with prices p opened at time t
Timed(p, t) == Candle(t, p.o, p.h, p.l, p.c)

\* a history of m equal candles, the last one at time 0
QuietStart(p, m) == [k \in 1..m |-> Timed(p, k - m)]

DetectorInit ==
    /\ pc = "detector"
    /\ IdleReplay
    /\ IdleMetrics
    /\ IdleGuard
    /\ IdleDrawdown
    /\ IdleSuspended
    /\ zcandles \in {QuietStart(p, m) : p \in QuietCandles, m \in QuietLens}
    /\ zout = None
    /\ IdleLive

\* the caller's history grows by one candle
AddCandle ==
    /\ pc = "detector"
    /\ zout = None
    /\ zcandles[Len(zcandles)].t < MaxPattern
    /\ \E p \in PatternCandles :
          zcandles' = Append(zcandles, Timed(p, zcandles[Len(zcandles)].t + 1))
    /\ UNCHANGED <<pc, cfg, fetched, main_tail, idx, sub_candle, zones, equity,
                   total_dca_added, last_dca_time, open_position, trades,
                   equity_curve, result, hist, mlog, mout, garg, gout, dcurve,
                   dout, suspended, zout, live_vars>>

\* backtester.py:374-432: the call find_supply_demand_zones(candles)
Detect ==
    /\ pc = "detector"
    /\ zout = None
    /\ zout' = find_supply_demand_zones(zcandles)
    /\ UNCHANGED <<pc, cfg, fetched, main_tail, idx, sub_candle, zones, equity,
                   total_dca_added, last_dca_time, open_position, trades,
                   equity_curve, result, hist, mlog, mout, garg, gout, dcurve,
                   dout, suspended, zcandles, live_vars>>

DetectorNext ==
    \/ AddCandle
    \/ Detect

DetectorSpec == DetectorInit /\ [][DetectorNext]_vars

\* the window the detector considers: candles[-lookback:]
Window == LastN(zcandles, Lookback)

\* C28: the Zone Detector fails soft.  For a history of fewer than 20 candles,
\* and for one whose window candles[-lookback:] holds only candles with
\* open = close, find_supply_demand_zones returns a record with
\* supply = None and demand = None.
C28_FailsSoft ==
    zout # None =>
        /\ DOMAIN zout = {"supply", "demand"}
        /\ Len(zcandles) < MinCandles =>
              zout.supply = None /\ zout.demand = None
        /\ (\A k \in 1..Len(Window) : Window[k].o = Window[k].c) =>
              zout.supply = None /\ zout.demand = None

\* the detector has returned for a history of at least 20 candles, dojis at
\* three price levels
C28_Witness ==
    /\ zout # None
    /\ Len(zcandles) >= MinCandles
    /\ \A k \in 1..Len(Window) : Window[k].o = Window[k].c
    /\ \E k \in 1..Len(Window) : Window[k].o = 120
    /\ \E k \in 1..Len(Window) : Window[k].o = 80
    /\ zout = [supply |-> None, demand |-> None]

\* current_price = data[-1]['c'] of the call recorded in zcandles
CurrentPrice == At(Window, Len(Window) - 1).c

\* the sum and the number of body_sizes of the call recorded in zcandles
WindowSum == BodySum(Window, Len(Window))

WindowCount == BodyCount(Window, Len(Window))

\* the indices i of the outer loop, range(len(data) - 2, 2, -1)
ScanRange == 3..(Len(Window) - 2)

\* a supply base that the drop at index i leaves and that lies at or below the
\* market; sum and n are those of body_sizes
FailedSupplyBase(i, sum, n) ==
    LET base == BaseOf(Window, i, sum, n, "rally")
    IN /\ IsDrop(At(Window, i))
       /\ IsExplosive(Body(At(Window, i)), sum, n)
       /\ base.count > 0
       /\ base.low <= CurrentPrice

\* a demand base that the rally at index i leaves and that lies at or above
\* the market
FailedDemandBase(i, sum, n) ==
    LET base == BaseOf(Window, i, sum, n, "drop")
    IN /\ IsRally(At(Window, i))
       /\ IsExplosive(Body(At(Window, i)), sum, n)
       /\ base.count > 0
       /\ base.high >= CurrentPrice

\* C29: zone acceptance relative to the market.  A supply zone returned has
\* its low strictly above the close of the last candle of the window, a
\* demand zone returned has its high strictly below that close, and the band
\* of a base that fails this test is not the zone returned.
C29_ZoneAcceptance ==
    zout # None =>
        /\ zout.supply # None => zout.supply.low > CurrentPrice
        /\ zout.demand # None => zout.demand.high < CurrentPrice
        /\ \A sum \in {WindowSum} : \A n \in {WindowCount} :
           \A i \in ScanRange :
              /\ LET base == BaseOf(Window, i, sum, n, "rally")
                 IN FailedSupplyBase(i, sum, n) =>
                       zout.supply # [high |-> base.high, low |-> base.low]
              /\ LET base == BaseOf(Window, i, sum, n, "drop")
                 IN FailedDemandBase(i, sum, n) =>
                       zout.demand # [high |-> base.high, low |-> base.low]

\* both zones are returned for a history that also holds a supply base on the
\* wrong side of the market
C29_Witness ==
    /\ zout # None
    /\ zout.supply # None
    /\ zout.demand # None
    /\ zout.supply.low > CurrentPrice
    /\ zout.demand.high < CurrentPrice
    /\ \E i \in ScanRange : FailedSupplyBase(i, WindowSum, WindowCount)

\* the open prices of the sub-candle at the entry check
EntryPrices == 70..130

\* C37: entry direction is unambiguous.  When the detector returns both
\* zones, demand.high < last close < supply.low, each band has low <= high,
\* so the bands are disjoint, and for no entry price both the test of the
\* long branch and the test of the short branch of the entry check hold.
C37_DisjointZones ==
    (zout # None /\ zout.supply # None /\ zout.demand # None) =>
        /\ zout.demand.low <= zout.demand.high
        /\ zout.demand.high < CurrentPrice
        /\ CurrentPrice < zout.supply.low
        /\ zout.supply.low <= zout.supply.high
        /\ \A entry_price \in EntryPrices :
              /\ ~(InZone(entry_price, zout.demand)
                   /\ InZone(entry_price, zout.supply))
              /\ InZone(entry_price, zout.demand) =>
                    EntrySignal("futures", entry_price, zout).direction = "long"
              /\ InZone(entry_price, zout.supply) =>
                    EntrySignal("futures", entry_price, zout).direction = "short"

\* both zones are returned, and of the entry prices one lies in the demand
\* zone, one in the supply zone and one in neither
C37_Witness ==
    /\ zout # None
    /\ zout.supply # None
    /\ zout.demand # None
    /\ \E entry_price \in EntryPrices : InZone(entry_price, zout.demand)
    /\ \E entry_price \in EntryPrices : InZone(entry_price, zout.supply)
    /\ \E entry_price \in EntryPrices :
          EntrySignal("futures", entry_price, zout) = None

\* is_basing_candle and is_rally_before (is_drop_before) of the candle at
\* index j
Qualifies(j, before, sum, n) ==
    /\ IsBasing(Body(At(Window, j)), sum, n)
    /\ IF before = "rally" THEN IsRally(At(Window, j - 1))
       ELSE IsDrop(At(Window, j - 1))

\* the indices j of the inner loop, range(i - 1, max(0, i - 4), -1)
Before3(i) == Max(1, i - 3)..(i - 1)

\* the candles the inner loop counts: the unbroken run of qualifying candles
\* that ends at index i - 1
BaseRun(i, before, sum, n) ==
    {j \in Before3(i) : \A k \in j..(i - 1) : Qualifies(k, before, sum, n)}

\* the qualifying candles among the up to 3 candles before index i
BaseAny(i, before, sum, n) ==
    {j \in Before3(i) : Qualifies(j, before, sum, n)}

\* the band of a non-empty set J of candles: their highest high and lowest low
BandOf(J) ==
    [high |-> CHOOSE h \in {At(Window, j).h : j \in J} :
                 \A j \in J : At(Window, j).h <= h,
     low  |-> CHOOSE l \in {At(Window, j).l : j \in J} :
                 \A j \in J : At(Window, j).l >= l]

\* the candle at index i is an explosive drop (before = "rally") or an
\* explosive rally (before = "drop")
ExplosiveLeg(i, before, sum, n) ==
    /\ IF before = "rally" THEN IsDrop(At(Window, i)) ELSE IsRally(At(Window, i))
    /\ IsExplosive(Body(At(Window, i)), sum, n)

\* the price-acceptance test of a band
Accepted(band, before) ==
    IF before = "rally" THEN band.low > CurrentPrice
    ELSE band.high < CurrentPrice

Highest(S) == CHOOSE i \in S : \A j \in S : j <= i

\* the zone of the highest index of the scan range whose candle is an
\* explosive leg, whose run of basing candles is not empty and whose band is
\* accepted; None if there is no such index
MostRecent(before, sum, n) ==
    LET S == {i \in ScanRange :
                 /\ ExplosiveLeg(i, before, sum, n)
                 /\ BaseRun(i, before, sum, n) # {}
                 /\ Accepted(BandOf(BaseRun(i, before, sum, n)), before)}
    IN IF S = {} THEN None ELSE BandOf(BaseRun(Highest(S), before, sum, n))

\* the indices of the scan range whose candle is an explosive leg with a
\* qualifying basing candle anywhere among the up to 3 candles before it,
\* the band of these candles being accepted
AnyBaseIndices(before, sum, n) ==
    {i \in ScanRange :
        /\ ExplosiveLeg(i, before, sum, n)
        /\ BaseAny(i, before, sum, n) # {}
        /\ Accepted(BandOf(BaseAny(i, before, sum, n)), before)}

\* C30: most recent zone wins.  For a history of at least 20 candles the
\* supply (demand) zone returned is the band of the basing candles of the
\* highest index i, from the second-to-last candle down to index 3, whose
\* candle is an explosive drop (rally), whose unbroken run of qualifying
\* basing candles directly before it, at most 3, is not empty, and whose band
\* passes the price-acceptance test; it is None if there is no such index.
\* The two zones are found independently of one another.
C30_MostRecentZone ==
    (zout # None /\ Len(zcandles) >= MinCandles) =>
        \A sum \in {WindowSum} : \A n \in {WindowCount} :
            /\ zout.supply = MostRecent("rally", sum, n)
            /\ zout.demand = MostRecent("drop", sum, n)

\* a supply zone is returned from an index of the scan range while a lower
\* index holds an accepted base with another band
C30_Witness ==
    /\ zout # None
    /\ zout.supply # None
    /\ \E i, k \in ScanRange :
          /\ k < i
          /\ SupplyAt(Window, i, WindowSum, WindowCount, CurrentPrice)
                = zout.supply
          /\ SupplyAt(Window, k, WindowSum, WindowCount, CurrentPrice) # None
          /\ SupplyAt(Window, k, WindowSum, WindowCount, CurrentPrice)
                # zout.supply

\* C30 as stated: the zone returned is built from the highest index whose
\* candle is an explosive leg with at least one qualifying basing candle
\* among the up to 3 candles before it, whose band is accepted
C30_AnyBasingCandle ==
    (zout # None /\ Len(zcandles) >= MinCandles) =>
        \A sum \in {WindowSum} : \A n \in {WindowCount} :
            /\ AnyBaseIndices("rally", sum, n) # {} =>
                  /\ zout.supply # None
                  /\ zout.supply \in
                        {BandOf(J) : J \in SUBSET Before3(
                            Highest(AnyBaseIndices("rally", sum, n))) \ {{}}}
            /\ AnyBaseIndices("drop", sum, n) # {} =>
                  /\ zout.demand # None
                  /\ zout.demand \in
                        {BandOf(J) : J \in SUBSET Before3(
                            Highest(AnyBaseIndices("drop", sum, n))) \ {{}}}

-----------------------------------------------------------------------------
(* The replay of backtester.py:694-795 on sub-candles that cross the       *)
(* levels of the position they open, or that open against a position       *)

\* open, high, low, close of the sub-candles: two that open inside the demand
\* and the supply zone of the warm-up candles and reach beyond the stop and
\* beyond the first level of the position opened, two flat ones, one that
\* opens below the entry of a long and above its stop, one that opens above
\* the entry of a short and below its stop, and one beyond the stop of a long
CrossShapes ==
    { <<11000, 12500, 9000, 11000>>,
      <<13000, 15000, 11000, 13000>>,
      <<11000, 11000, 11000, 11000>>,
      <<12500, 12500, 12500, 12500>>,
      <<10500, 10500, 10200, 10500>>,
      <<13500, 13800, 13500, 13500>>,
      <<9500, 9500, 9500, 9500>> }

\* a call whose two fetch loops returned the full arrays
CrossInit ==
    /\ Init
    /\ fetched = [n_main |-> FullMain, n_sub |-> FullSub]

NextCrossing == ReadCandle(CrossShapes)

CrossNext ==
    \/ Begin
    \/ NextCrossing
    \/ ExitEval
    \/ NotAligned
    \/ WarmingUp
    \/ Reversal
    \/ Entry
    \/ Finish

CrossSpec == CrossInit /\ [][CrossNext]_vars

\* C33: a position is not evaluated against the sub-candle that opened it.
\* The entry step appends no trade, whatever the range of its sub-candle, and
\* every SL, TP1, TP2 or TP3 record of a position has an exit_time strictly
\* later than the timestamp of the sub-candle on which the position was
\* opened.
C33_NoExitOnEntryCandle ==
    /\ [][pc = "entry" => trades' = trades]_vars
    /\ [](\A k \in 1..Len(trades) :
             (/\ hist.owner[k] = hist.serial
              /\ trades[k].exit_reason \in {"SL", "TP1", "TP2", "TP3"}) =>
                 trades[k].exit_time > cfg.start_ts + hist.entry_idx)

\* a position was opened on a sub-candle whose range reaches its stop-loss
\* and its first take-profit level; it is open with no record when the next
\* sub-candle is read
C33_Witness ==
    /\ pc = "exit"
    /\ open_position # None
    /\ hist.entry_idx = idx - 1
    /\ \A k \in 1..Len(trades) : hist.owner[k] # hist.serial
    /\ ~open_position.tp1_hit
    /\ \E sh \in CrossShapes :
          \E c \in {Candle(sub_candle.t - 1, sh[1], sh[2], sh[3], sh[4])} :
             /\ c.o = open_position.entry_price
             /\ SlHit(open_position, c)
             /\ TpHit(open_position, c, 1)

\* C34: a Reversal exit is never worse than the stop-loss.  When a Reversal
\* trade is recorded its exit price, the open of the sub-candle, lies within
\* the candle's range and is strictly above the stop-loss of a long, strictly
\* below that of a short, and the loss of the record is strictly smaller than
\* the loss of the same quantity at the stop-loss.
C34_ReversalInsideStop ==
    [][(/\ pc = "signal"
        /\ open_position # None
        /\ Len(trades') = Len(trades) + 1) =>
          LET p == open_position
              t == trades'[Len(trades')]
          IN /\ t.exit_reason = "Reversal"
             /\ sub_candle.l <= sub_candle.o /\ sub_candle.o <= sub_candle.h
             /\ p.direction = "long" => sub_candle.o > p.sl
             /\ p.direction = "short" => sub_candle.o < p.sl
             /\ t.pnl = Pnl(p, sub_candle.o, p.quantity)
             /\ t.pnl > Pnl(p, p.sl, p.quantity)
             /\ -t.pnl < Abs(p.entry_price - p.sl) * p.quantity]_vars

\* the last record is a Reversal of a short at a loss, the sub-candle having
\* opened between the entry price and the stop-loss
C34_Witness ==
    /\ pc = "entry"
    /\ trades # <<>>
    /\ trades[Len(trades)].exit_reason = "Reversal"
    /\ trades[Len(trades)].exit_time = sub_candle.t
    /\ trades[Len(trades)].direction = "SHORT"
    /\ trades[Len(trades)].pnl < 0

\* the sum of the pnl of the records among the first k of the log that belong
\* to position s
RECURSIVE PnlOf(_, _)
PnlOf(s, k) ==
    IF k = 0 THEN 0
    ELSE PnlOf(s, k - 1) + (IF hist.owner[k] = s THEN trades[k].pnl ELSE 0)

\* equity at entry * risk_pct / 100 of the latest position
RiskAmount == FDiv(hist.equity0 * cfg.risk_percentage, 100)

\* C35: risk-based sizing bounds the loss in futures mode.  A position that
\* is stopped out before any take-profit level was hit records an SL trade
\* whose loss is equity at entry * risk_pct / 100, up to the rounding of the
\* quantity (less than one quantity unit times the stop distance), and the
\* total pnl of the records of one position is never below minus that
\* amount.
C35_RiskBoundsLoss ==
    /\ [][(/\ pc = "exit"
           /\ cfg.mode = "futures"
           /\ open_position # None
           /\ ~open_position.tp1_hit
           /\ SlHit(open_position, sub_candle)) =>
             LET p == open_position
                 R == Abs(p.entry_price - p.sl)
                 t == trades'[Len(trades')]
             IN /\ Len(trades') = Len(trades) + 1
                /\ t.exit_reason = "SL"
                /\ p.quantity = hist.qty0
                /\ t.pnl = -(R * hist.qty0)
                /\ -t.pnl <= RiskAmount
                /\ RiskAmount + t.pnl < R]_vars
    /\ []((cfg # None /\ cfg.mode = "futures" /\ hist.serial > 0) =>
             PnlOf(hist.serial, Len(trades)) >= -RiskAmount)

\* a futures position was stopped out on this sub-candle with no level
\* filled: its only record is an SL at a loss
C35_Witness ==
    /\ pc = "signal"
    /\ cfg.mode = "futures"
    /\ open_position = None
    /\ trades # <<>>
    /\ trades[Len(trades)].exit_reason = "SL"
    /\ trades[Len(trades)].exit_time = sub_candle.t
    /\ trades[Len(trades)].pnl < 0
    /\ hist.owner[Len(trades)] = hist.serial
    /\ \A k \in 1..(Len(trades) - 1) : hist.owner[k] # hist.serial
    /\ PnlOf(hist.serial, Len(trades)) = trades[Len(trades)].pnl

-----------------------------------------------------------------------------
(* The four module locks of main.py and the threads that take them:       *)
(* trade_bot_worker, pnl_updater_worker and the route handlers, each      *)
(* reduced to the lock operations of its with-statements.  A branch that  *)
(* depends on data is a choice between the lock operations of its arms.   *)

\* main.py:81-84
Locks == {"settings_lock", "trade_list_lock", "status_lock", "positions_lock"}

\* route handlers the development server runs at the same time
NumHandlers == 2

HandlerThreads == {"http" \o ToString(k) : k \in 1..NumHandlers}

\* main.py:833-835: the two daemon threads and the server's request threads
Threads == {"bot", "pnl"} \cup HandlerThreads

\* `with l: body`: acquire on entry, release on exit (also on continue,
\* return and exception)
With(l, body) == <<<<"acq", l>>>> \o body \o <<<<"rel", l>>>>

\* `with a, b: body`
With2(a, b, body) == With(a, With(b, body))

\* an if statement: the operations of one of its arms
Either(arms) == <<<<"either", arms>>>>

\* the rest of the function runs, or the function returns (the cycle ends)
Maybe(rest) == Either({<<>>, rest})

\* a for loop whose body takes one of the given paths
ForEach(bodies) == <<<<"loop", bodies>>>>

\* main.py:335-396: one item of the trade list: the look-ups (337, 338),
\* then nothing, the Reversal close (359) or the entry (384)
trade_bot_item_locks ==
    With("positions_lock", <<>>) \o With("status_lock", <<>>)
      \o Either({<<>>,
                 With2("positions_lock", "status_lock", <<>>),
                 With("positions_lock", <<>>)})

\* main.py:305-399: one cycle of trade_bot_worker
trade_bot_worker_locks ==
    With("trade_list_lock", <<>>)
      \o Maybe(With("settings_lock", <<>>)
                 \o Maybe(ForEach({trade_bot_item_locks})))

\* main.py:419-475: one position of the copy: no ticker, or the status
\* update (429) and then nothing, the SL close (445), a TP partial close
\* (464) or the last close with the status update nested (471)
pnl_updater_item_locks ==
    Maybe(With("status_lock", <<>>)
            \o Either({<<>>,
                       With2("positions_lock", "status_lock", <<>>),
                       With("positions_lock", <<>>),
                       With("positions_lock", With("status_lock", <<>>))}))

\* main.py:403-477: one cycle of pnl_updater_worker
pnl_updater_worker_locks ==
    With("positions_lock", <<>>)
      \o Maybe(With("settings_lock", <<>>)
                 \o ForEach({pnl_updater_item_locks}))

\* main.py:615-619 (also get_balance 648, run_backtest_simulation 490)
handle_settings_locks == With("settings_lock", <<>>)

\* main.py:621-623
get_trade_list_locks == With2("trade_list_lock", "status_lock", <<>>)

\* main.py:625-634
add_to_trade_list_locks ==
    With("trade_list_lock", Maybe(With("status_lock", <<>>)))

\* the three with-statements of the handler one inside the other
remove_from_trade_list_Nested ==
    With("trade_list_lock",
         With("status_lock", With("positions_lock", <<>>)))

\* main.py:636-643: three with-statements one after the other
remove_from_trade_list_locks ==
    With("trade_list_lock", <<>>) \o With("status_lock", <<>>)
      \o With("positions_lock", <<>>)

\* main.py:659-690
manual_trade_locks ==
    With("settings_lock", <<>>)
      \o Maybe(With2("positions_lock", "status_lock", <<>>))

\* main.py:692-708
manual_close_locks ==
    With("positions_lock", <<>>)
      \o Maybe(With("settings_lock", <<>>)
                 \o Maybe(With2("positions_lock", "status_lock", <<>>)))

\* main.py:722-773
test_open_position_locks ==
    With("positions_lock", <<>>)
      \o Maybe(With("settings_lock", <<>>)
                 \o Maybe(With2("positions_lock", "status_lock", <<>>)))

\* main.py:781-828
test_close_partial_locks ==
    With("positions_lock", Maybe(With("status_lock", <<>>)))

\* the lock operations of the route handlers
HandlerPaths ==
    {handle_settings_locks, get_trade_list_locks, add_to_trade_list_locks,
     remove_from_trade_list_locks, manual_trade_locks, manual_close_locks,
     test_open_position_locks, test_close_partial_locks}

\* a thread between two calls (a worker: asleep between two cycles)
Resting == [todo |-> <<>>, held |-> <<>>]

LockInit ==
    /\ pc = "locks"
    /\ IdleReplay
    /\ IdleMetrics
    /\ IdleGuard
    /\ IdleDrawdown
    /\ IdleSuspended
    /\ IdleDetector
    /\ ACTIVE_POSITIONS = <<>>
    /\ objects = <<>>
    /\ closers = None
    /\ lock_owner = [l \in Locks |-> "free"]
    /\ threads = [t \in Threads |-> Resting]

LockFrame ==
    UNCHANGED <<pc, cfg, fetched, main_tail, idx, sub_candle, zones, equity,
                total_dca_added, last_dca_time, open_position, trades,
                equity_curve, result, hist, mlog, mout, garg, gout, dcurve,
                dout, suspended, zcandles, zout,
                ACTIVE_POSITIONS, objects, closers>>

\* the functions thread t runs
Starts(t) ==
    CASE t = "bot" -> {trade_bot_worker_locks}
      [] t = "pnl" -> {pnl_updater_worker_locks}
      [] OTHER -> HandlerPaths

\* the next operation of thread t is of the given kind
NextOp(t, kind) ==
    /\ pc = "locks"
    /\ threads[t].todo # <<>>
    /\ Head(threads[t].todo)[1] = kind

\* a worker wakes up (main.py:306, 404) or a request arrives
Call(t) ==
    /\ pc = "locks"
    /\ threads[t].todo = <<>>
    /\ \E s \in Starts(t) : threads' = [threads EXCEPT ![t].todo = s]
    /\ UNCHANGED lock_owner
    /\ LockFrame

\* Lock.acquire(): blocks until the lock is free (threading.Lock is not
\* reentrant: the holder itself blocks too)
Acquire(t) ==
    /\ NextOp(t, "acq")
    /\ \E l \in {Head(threads[t].todo)[2]} :
          /\ lock_owner[l] = "free"
          /\ lock_owner' = [lock_owner EXCEPT ![l] = t]
          /\ threads' = [threads EXCEPT ![t].todo = Tail(@),
                                        ![t].held = Append(@, l)]
    /\ LockFrame

\* Lock.release() at the end of the with-statement
Release(t) ==
    /\ NextOp(t, "rel")
    /\ \E l \in {Head(threads[t].todo)[2]} :
          /\ lock_owner' = [lock_owner EXCEPT ![l] = "free"]
          /\ threads' = [threads EXCEPT
                            ![t].todo = Tail(@),
                            ![t].held = SelectSeq(@, LAMBDA h : h # l)]
    /\ LockFrame

\* an if statement takes one of its arms
Branch(t) ==
    /\ NextOp(t, "either")
    /\ \E arm \in Head(threads[t].todo)[2] :
          threads' = [threads EXCEPT ![t].todo = arm \o Tail(@)]
    /\ UNCHANGED lock_owner
    /\ LockFrame

\* main.py:335, 419: the for loop takes its next item
NextItem(t) ==
    /\ NextOp(t, "loop")
    /\ \E body \in Head(threads[t].todo)[2] :
          threads' = [threads EXCEPT ![t].todo = body \o @]
    /\ UNCHANGED lock_owner
    /\ LockFrame

\* the for loop is over
LoopEnd(t) ==
    /\ NextOp(t, "loop")
    /\ threads' = [threads EXCEPT ![t].todo = Tail(@)]
    /\ UNCHANGED lock_owner
    /\ LockFrame

Calls == \E t \in Threads : Call(t)

Acquires == \E t \in Threads : Acquire(t)

Releases == \E t \in Threads : Release(t)

Branches == \E t \in Threads : Branch(t)

NextItems == \E t \in Threads : NextItem(t)

LoopEnds == \E t \in Threads : LoopEnd(t)

LockNext ==
    Calls \/ Acquires \/ Releases \/ Branches \/ NextItems \/ LoopEnds

LockSpec == LockInit /\ [][LockNext]_vars

\* a thread that can run does run; a waiting thread gets a lock that is
\* released again and again
LockFairSpec ==
    /\ LockSpec
    /\ \A t \in Threads :
          /\ WF_vars(Release(t) \/ Branch(t) \/ NextItem(t) \/ LoopEnd(t))
          /\ SF_vars(Acquire(t))

\* thread t waits for a lock another thread (or t itself) holds
Waiting(t) ==
    /\ threads[t].todo # <<>>
    /\ Head(threads[t].todo)[1] = "acq"
    /\ lock_owner[Head(threads[t].todo)[2]] # "free"

\* the thread that holds the lock t waits for
WaitsFor(t) == lock_owner[Head(threads[t].todo)[2]]

\* status_lock is the last lock acquired of every thread that holds it
\* together with another one
StatusInnermost ==
    \A t \in Threads :
       \A k \in 1..Len(threads[t].held) :
          threads[t].held[k] = "status_lock" => k = Len(threads[t].held)

\* no thread is about to acquire a lock while it holds status_lock
NothingUnderStatus ==
    \A t \in Threads :
       (threads[t].todo # <<>> /\ Head(threads[t].todo)[1] = "acq")
          => \A k \in 1..Len(threads[t].held) :
                threads[t].held[k] # "status_lock"

\* no set of threads in which every thread waits for a lock held by a
\* thread of the set
NoWaitCycle ==
    \A S \in SUBSET Threads :
       S # {} => \E t \in S : ~Waiting(t) \/ WaitsFor(t) \notin S

-----------------------------------------------------------------------------
(* The close-out of a live position in main.py: pnl_updater_worker (SL    *)
(* and TP partial closes), trade_bot_worker (Reversal close, entry) and   *)
(* manual_close on one item of the trade list.  A with-block is one step; *)
(* every place_order call, made outside the locks, is a step of its own.  *)
(* ACTIVE_POSITIONS holds references: the updater's dict(ACTIVE_POSITIONS)*)
(* (408), the bot's position_data (337) and the handler's pos (698) all   *)
(* denote the position dict itself.                                       *)

\* positions the bot opens in one run of the model
MaxOpened == 2

\* the id of the item of the trade list
ItemId == "item1"

\* the quantity of an entry, in quantity ticks
OpenQuantities == {100}

\* ticker prices, in price ticks
TickerPrices == {70, 80, 90, 100, 110, 120, 130}

\* main.py:385-392: the position dict stored at entry, with the entry at
\* 100, the stop 10 away; opened and closed are history: the quantity of
\* the entry order and the sum of the close orders placed for the position
LivePosition(q, direction) ==
    LET s == IF direction = "long" THEN 1 ELSE -1
    IN  [quantity |-> q, direction |-> direction, entry_price |-> 100,
         sl_price |-> 100 - s * 10,
         tp1 |-> 100 + s * 10, tp2 |-> 100 + s * 20, tp3 |-> 100 + s * 30,
         tp1_qty |-> FDiv(q * 33, 100), tp2_qty |-> FDiv(q * 33, 100),
         tp3_qty |-> q - 2 * FDiv(q * 33, 100),
         tp1_hit |-> FALSE, tp2_hit |-> FALSE, tp3_hit |-> FALSE,
         opened |-> q, closed |-> 0]

\* res = client.place_order(...): the order is placed (code 0) or not
Responses == {"placed", "failed"}

\* a close order of quantity q placed for the position dict ref
Placed(objs, ref, q) == [objs EXCEPT ![ref].closed = @ + q]

\* del ACTIVE_POSITIONS[item_id] if it is there
Deleted(positions) ==
    [i \in DOMAIN positions \ {ItemId} |-> positions[i]]

NoLocals == [pc |-> "idle", ref |-> 0, quantity |-> 0, price |-> 0, tp |-> 0]

CloseInit ==
    /\ pc = "closing"
    /\ IdleReplay
    /\ IdleMetrics
    /\ IdleGuard
    /\ IdleDrawdown
    /\ IdleSuspended
    /\ IdleDetector
    /\ lock_owner = None
    /\ threads = None
    /\ ACTIVE_POSITIONS = <<>>
    /\ objects = <<>>
    /\ closers = [bot |-> NoLocals, pnl |-> NoLocals, http |-> NoLocals]

CloseFrame ==
    UNCHANGED <<pc, cfg, fetched, main_tail, idx, sub_candle, zones, equity,
                total_dca_added, last_dca_time, open_position, trades,
                equity_curve, result, hist, mlog, mout, garg, gout, dcurve,
                dout, suspended, zcandles, zout, lock_owner, threads>>

\* thread t is at the given place
Where(t, place) == pc = "closing" /\ closers[t].pc = place

\* the locals of thread t after a step
Moved(t, locals) == closers' = [closers EXCEPT ![t] = locals]

\* ACTIVE_POSITIONS.get(item_id): the reference stored, 0 for None
Lookup == IF ItemId \in DOMAIN ACTIVE_POSITIONS
          THEN ACTIVE_POSITIONS[ItemId] ELSE 0

\* main.py:337-342: trade_bot_worker looks the item's position up and
\* fetches the candles
Bot_Lookup ==
    /\ Where("bot", "idle")
    /\ Moved("bot", [NoLocals EXCEPT !.pc = "analysed", !.ref = Lookup])
    /\ UNCHANGED <<ACTIVE_POSITIONS, objects>>
    /\ CloseFrame

\* main.py:344-355, 363-369: no contrary zone, or no zone to enter, or
\* the cooldown
Bot_NoSignal ==
    /\ Where("bot", "analysed")
    /\ Moved("bot", NoLocals)
    /\ UNCHANGED <<ACTIVE_POSITIONS, objects>>
    /\ CloseFrame

\* main.py:352-358: a contrary zone: the close order for
\* position_data['quantity'] as it is now
Bot_Reversal ==
    /\ Where("bot", "analysed")
    /\ closers.bot.ref # 0
    /\ \E res \in Responses :
          IF res = "placed"
          THEN /\ objects' = Placed(objects, closers.bot.ref,
                                    objects[closers.bot.ref].quantity)
               /\ Moved("bot", [closers.bot EXCEPT !.pc = "closed"])
          ELSE /\ objects' = objects
               /\ Moved("bot", NoLocals)
    /\ UNCHANGED ACTIVE_POSITIONS
    /\ CloseFrame

\* main.py:359-361
Bot_Delete ==
    /\ Where("bot", "closed")
    /\ ACTIVE_POSITIONS' = Deleted(ACTIVE_POSITIONS)
    /\ Moved("bot", NoLocals)
    /\ UNCHANGED objects
    /\ CloseFrame

\* main.py:363-393: no position was found: the entry order, and the new
\* position dict stored under the item's id
Bot_Entry ==
    /\ Where("bot", "analysed")
    /\ closers.bot.ref = 0
    /\ Len(objects) < MaxOpened
    /\ \E res \in Responses, q \in OpenQuantities,
          direction \in {"long", "short"} :
          IF res = "placed"
          THEN /\ objects' = Append(objects, LivePosition(q, direction))
               /\ ACTIVE_POSITIONS' =
                     [i \in DOMAIN ACTIVE_POSITIONS \cup {ItemId} |->
                         Len(objects) + 1]
          ELSE UNCHANGED <<ACTIVE_POSITIONS, objects>>
    /\ Moved("bot", NoLocals)
    /\ CloseFrame

\* main.py:406-417: pnl_updater_worker copies ACTIVE_POSITIONS (the dict,
\* not the position dicts) and fetches the ticker price
Pnl_Snapshot ==
    /\ Where("pnl", "idle")
    /\ ACTIVE_POSITIONS # <<>>
    /\ \E price \in TickerPrices :
          Moved("pnl", [NoLocals EXCEPT !.pc = "item", !.ref = Lookup,
                                        !.price = price])
    /\ UNCHANGED <<ACTIVE_POSITIONS, objects>>
    /\ CloseFrame

\* main.py:441: the stop is hit
StopHit(position, price) ==
    \/ position.direction = "long" /\ price <= position.sl_price
    \/ position.direction = "short" /\ price >= position.sl_price

LevelPrice(position, k) ==
    CASE k = 1 -> position.tp1 [] k = 2 -> position.tp2
      [] k = 3 -> position.tp3

LevelQty(position, k) ==
    CASE k = 1 -> position.tp1_qty [] k = 2 -> position.tp2_qty
      [] k = 3 -> position.tp3_qty

LevelHit(position, k) ==
    CASE k = 1 -> position.tp1_hit [] k = 2 -> position.tp2_hit
      [] k = 3 -> position.tp3_hit

\* main.py:467-468: live_pos[tp['hit_flag']] = True;
\* live_pos['quantity'] -= tp['qty']
Booked(position, k, qty) ==
    LET p == [position EXCEPT !.quantity = @ - qty]
    IN  CASE k = 1 -> [p EXCEPT !.tp1_hit = TRUE]
          [] k = 2 -> [p EXCEPT !.tp2_hit = TRUE]
          [] k = 3 -> [p EXCEPT !.tp3_hit = TRUE]

\* main.py:455-457: the levels not yet flagged that the price has reached
LevelsDue(position, price) ==
    {k \in 1..3 :
        /\ ~LevelHit(position, k)
        /\ \/ position.direction = "long" /\ price >= LevelPrice(position, k)
           \/ position.direction = "short"
                /\ price <= LevelPrice(position, k)}

\* the smallest element of a non-empty set of levels
First(S) == CHOOSE k \in S : \A j \in S : k <= j

\* main.py:419-458: the item of the copy: quantity is read (422), then the
\* stop is hit, or a level is due (only the first one: break at 475), or
\* nothing is
Pnl_Evaluate ==
    /\ Where("pnl", "item")
    /\ \E position \in {objects[closers.pnl.ref]} :
          Moved("pnl",
                IF StopHit(position, closers.pnl.price)
                THEN [closers.pnl EXCEPT !.pc = "sl",
                                         !.quantity = position.quantity]
                ELSE IF LevelsDue(position, closers.pnl.price) # {}
                THEN [closers.pnl EXCEPT
                         !.pc = "tp", !.quantity = position.quantity,
                         !.tp = First(LevelsDue(position, closers.pnl.price))]
                ELSE NoLocals)
    /\ UNCHANGED <<ACTIVE_POSITIONS, objects>>
    /\ CloseFrame

\* main.py:442-443: the close order for the quantity read at 422
Pnl_StopLoss ==
    /\ Where("pnl", "sl")
    /\ \E res \in Responses :
          IF res = "placed"
          THEN /\ objects' = Placed(objects, closers.pnl.ref,
                                    closers.pnl.quantity)
               /\ Moved("pnl", [closers.pnl EXCEPT !.pc = "sl_placed"])
          ELSE /\ objects' = objects
               /\ Moved("pnl", NoLocals)
    /\ UNCHANGED ACTIVE_POSITIONS
    /\ CloseFrame

\* main.py:444-448
Pnl_DeleteStopped ==
    /\ Where("pnl", "sl_placed")
    /\ ACTIVE_POSITIONS' = Deleted(ACTIVE_POSITIONS)
    /\ Moved("pnl", NoLocals)
    /\ UNCHANGED objects
    /\ CloseFrame

\* main.py:459-461: the partial close order for the level's quantity
Pnl_TakeProfit ==
    /\ Where("pnl", "tp")
    /\ \E res \in Responses :
          IF res = "placed"
          THEN /\ objects' =
                     Placed(objects, closers.pnl.ref,
                            LevelQty(objects[closers.pnl.ref],
                                     closers.pnl.tp))
               /\ Moved("pnl", [closers.pnl EXCEPT !.pc = "tp_placed"])
          ELSE /\ objects' = objects
               /\ Moved("pnl", NoLocals)
    /\ UNCHANGED ACTIVE_POSITIONS
    /\ CloseFrame

\* main.py:462-473: the partial close is booked on the position stored
\* under the item's id now, which is deleted with the last level or when
\* nothing remains (quantity < 0.00001: below one quantity tick)
Pnl_Book ==
    /\ Where("pnl", "tp_placed")
    /\ \E live_pos \in {Lookup}, k \in {closers.pnl.tp} :
          IF live_pos = 0
          THEN UNCHANGED <<ACTIVE_POSITIONS, objects>>
          ELSE \E booked \in {Booked(objects[live_pos], k,
                                     LevelQty(objects[closers.pnl.ref], k))} :
                  /\ objects' = [objects EXCEPT ![live_pos] = booked]
                  /\ ACTIVE_POSITIONS' =
                        IF booked.quantity < 1 \/ k = 3
                        THEN Deleted(ACTIVE_POSITIONS)
                        ELSE ACTIVE_POSITIONS
    /\ Moved("pnl", NoLocals)
    /\ CloseFrame

\* main.py:696-698: manual_close finds the item's position (404 without
\* one)
Mc_Lookup ==
    /\ Where("http", "idle")
    /\ Lookup # 0
    /\ Moved("http", [NoLocals EXCEPT !.pc = "found", !.ref = Lookup])
    /\ UNCHANGED <<ACTIVE_POSITIONS, objects>>
    /\ CloseFrame

\* main.py:699-702: the close order for pos['quantity'] as it is now
Mc_Place ==
    /\ Where("http", "found")
    /\ \E res \in Responses :
          IF res = "placed"
          THEN /\ objects' = Placed(objects, closers.http.ref,
                                    objects[closers.http.ref].quantity)
               /\ Moved("http", [closers.http EXCEPT !.pc = "closed"])
          ELSE /\ objects' = objects
               /\ Moved("http", NoLocals)
    /\ UNCHANGED ACTIVE_POSITIONS
    /\ CloseFrame

\* main.py:703-706
Mc_Delete ==
    /\ Where("http", "closed")
    /\ ACTIVE_POSITIONS' = Deleted(ACTIVE_POSITIONS)
    /\ Moved("http", NoLocals)
    /\ UNCHANGED objects
    /\ CloseFrame

CloseNext ==
    \/ Bot_Lookup \/ Bot_NoSignal \/ Bot_Reversal \/ Bot_Delete \/ Bot_Entry
    \/ Pnl_Snapshot \/ Pnl_Evaluate \/ Pnl_StopLoss \/ Pnl_DeleteStopped
    \/ Pnl_TakeProfit \/ Pnl_Book
    \/ Mc_Lookup \/ Mc_Place \/ Mc_Delete

CloseSpec == CloseInit /\ [][CloseNext]_vars

\* C39: the live close-out never over-closes: for every position and every
\* interleaving of pnl_updater_worker, trade_bot_worker and manual_close,
\* the sum of the quantities of the close orders placed for the position
\* is at most the quantity with which it was opened.
C39_NeverOverCloses ==
    \A ref \in 1..Len(objects) :
       objects[ref].closed <= objects[ref].opened

\* the updater has placed its SL close order from its copy for a position
\* that another thread had closed in full and deleted: twice the opening
\* quantity is ordered closed
C39_Witness ==
    /\ pc = "closing"
    /\ closers.pnl.pc = "sl_placed"
    /\ ACTIVE_POSITIONS = <<>>
    /\ closers.bot.pc = "idle"
    /\ closers.http.pc = "idle"
    /\ objects[closers.pnl.ref].closed = 2 * objects[closers.pnl.ref].opened

====
